---- MODULE Spec2Model ----
(***************************************************************************)
(* A model of the turn-based narrative game engine of telegram_bot        *)
(* (package dnd): the reasoning orchestrator of game_logic.py, the tool   *)
(* surface of tools.py, the session store of database.py, the chat        *)
(* handlers of dnd_bot.py and the idle-turn monitor of turn_timer.py and  *)
(* ai_player.py.                                                           *)
(*                                                                         *)
(* The module holds several specifications over one set of variables:     *)
(*   SpecInvoke  one call of _invoke_dm_conversational                     *)
(*   SpecTools   sequences of apply_damage calls on a party               *)
(*   SpecTurn    sequences of advance_turn calls                           *)
(*   SpecLobby   /dnd_new, /dnd_join, /dnd_start, /dnd_end                 *)
(*   SpecPlay    an active session: the /dnd_action conversation and the   *)
(*               idle-turn takeover, interleaved at their await points     *)
(*   SpecDialog  the /dnd_action conversation alone, followed to the       *)
(*               maximum exchange count                                    *)
(*   SpecOverlap two apply_damage calls of one AI message, one            *)
(*               transaction at a time                                     *)
(*   SpecDelete  rows added to every owned table, then /dnd_end            *)
(*   SpecGraph   create_zone, add_zone_adjacency, delete_zone and          *)
(*               get_zone_distance of database.py                          *)
(*   SpecScene   the scene tools of zone_tools.py, setup_scene one         *)
(*               transaction at a time                                     *)
(*   SpecSweep   the lobby commands beside the idle-turn monitor           *)
(*   SpecInventory  add_item and remove_item of inventory_tools.py         *)
(*   SpecDice    _parse_and_roll on notations given character by character *)
(*   SpecFinalize   the /dnd_action conversation with finalize_action one  *)
(*               committed call at a time                                  *)
(*   SpecCycle   one call of _invoke_dm_conversational with the tool calls  *)
(*               of its agent acting on the store                          *)
(*   SpecFrame   the scene tools, add_dm_note and /dnd_end of this chat's    *)
(*               game beside the rows of the game of another chat          *)
(* The zone tables follow migrations/versions/006_add_zones.py; ids are    *)
(* handed out as one above the largest id of the table.                    *)
(* The idle-turn monitor is modelled as turn_timer.py documents it, a      *)
(* job_queue repeating task; main.py does not register it.                 *)
(* A specification leaves the variables of the other parts unchanged.      *)
(***************************************************************************)
EXTENDS Integers, Sequences, FiniteSets, TLC

VARIABLES
    \* --- one call of _invoke_dm_conversational (game_logic.py) ---
    ipc,          \* "call" | "retry" | "returned" | "raised"
    trace1,       \* result["messages"] of the first agent.invoke
    trace2,       \* retry_result["messages"] of the retry
    invocations,  \* number of agent.invoke calls made by this call
    sent,         \* the prompts handed to agent.invoke, in order
    resp,         \* the DMResponse returned
    \* --- the session store (database.py), one chat ---
    status,       \* "none" (no Game row) | "recruiting" | "active"
    players,      \* the Player rows of the game, in join order
    current,      \* Game.current_player_id, 0 for NULL
    turn,         \* Game.turn_number
    updated_at,   \* Game.updated_at
    events,       \* the GameEvent rows of the game, by id
    story_summary, \* Game.story_summary: the turn its last refresh covered
    now,          \* time.time()
    \* --- the caller of the operation under study ---
    calls,        \* number of completed calls (SpecTools, SpecTurn)
    lastCall,     \* arguments and result of the last call
    \* --- the update handler task of dnd_bot.py (one handler at a time) ---
    hpc,          \* "idle" | "start" | "continue" | "finalize" | start_game steps
    hgame,        \* the handler's local `game` (a Game loaded earlier)
    hplayer,      \* the handler's local `player` (its id)
    huser,        \* update.effective_user.id of the update being handled
    hexch,        \* the handler's local exchange_count
    hout,         \* outcome of the handler's last DM call
    conv,         \* ConversationHandler state per user
    chat_data,    \* context.chat_data of the chat
    patience,     \* how many clarification questions the player answers
    \* --- the idle-turn monitor task (turn_timer.py, ai_player.py) ---
    tpc,          \* "idle" | "auto" | "gen" | "start" | "loop" | "finalize"
    tgame,        \* auto_play_turn's local `game`
    tplayer,      \* auto_play_turn's local `player` (its id)
    texch,        \* auto_play_turn's local exchange_count
    tout,         \* outcome of the monitor's last DM call / its dm_response
    tgen,         \* outcome of the last generate_ai_action call
    taction,      \* the action text auto_play_turn submits
    tdepth,       \* how many auto_play_turn calls enclose the running one
    tsent,        \* the last message the monitor sent to the chat
    lastPrompt,   \* the instruction of the last message built for the DM
    \* --- the tool calls one ToolNode step runs side by side (tools.py) ---
    workers,      \* per call: its position, arguments and locals
    \* --- the games table (database.py): the keys of its rows, in insertion order ---
    games,        \* Game rows: id, chat_id; the other columns of this chat's row are above
    other_game,   \* the player and event rows of the game of the other chat
    \* --- the spatial tables (database.py), rows of every game ---
    zones,        \* Zone rows: id, game_id, name
    adjacencies,  \* ZoneAdjacency rows: zone_a_id, zone_b_id
    zone_entities, \* ZoneEntity rows: game_id, zone_id, name
    \* --- the other tables owned by a game ---
    dm_notes,     \* DmNote rows: id, game_id
    campaign_sections, \* CampaignSection rows: game_id, section_order
    inventory_items, \* InventoryItem rows: id, game_id, player_id, item_name, quantity
    spell_slots   \* SpellSlots rows: player_id

invokeVars == <<ipc, trace1, trace2, invocations, sent, resp>>
storeVars  == <<status, players, current, turn, updated_at, events, story_summary>>
callVars   == <<calls, lastCall>>
humanVars  == <<hpc, hgame, hplayer, huser, hexch, hout, conv, chat_data, patience>>
timerVars  == <<tpc, tgame, tplayer, texch, tout, tgen, taction, tdepth, tsent>>
playVars   == <<humanVars, timerVars, lastPrompt>>
zoneVars   == <<zones, adjacencies, zone_entities>>
ownedVars  == <<dm_notes, campaign_sections, inventory_items, spell_slots>>
tableVars  == <<workers, games, other_game, zoneVars, ownedVars>>
vars == <<invokeVars, storeVars, now, callVars, playVars, tableVars>>

(***************************************************************************)
(* Bounds of the model.                                                    *)
(***************************************************************************)
MaxTrace == 3
MaxCalls == 2
MaxHP == 2
MaxAmount == 3
MaxPlayerId == 4
MaxParty == 3
MaxTurnCalls == 7
MaxTurn == 2
MaxEvents == 3
MaxPlayParty == 2
MaxPatience == 1
MaxTicks == 2
TickSeconds == 43200
MaxExtraExchanges == 1
MaxUsers == 5
MaxRows == 1
MaxSections == 2
MaxZones == 3
MaxZoneId == 6
MaxSceneZones == 2
MaxSceneConnections == 2
MaxSceneEntities == 1
MaxQuantity == 2
MaxItems == 2
MaxItemId == 3
MaxRolledDice == 2
MaxRolledSides == 3

(***************************************************************************)
(* Constants of the program.                                               *)
(***************************************************************************)
ForceResolveAt == 25
PartyLimit == 4
MinPlayers == 2
MaxAiExchanges == 3
TURN_TIMEOUT_SECONDS == 86400
DiceLimit == 100
SidesLimit == 100
MinSides == 2

(***************************************************************************)
(* Python dict, as a function on the keys present.                         *)
(***************************************************************************)
EmptyDict == [k \in {} |-> 0]
DictGet(d, k, default) == IF k \in DOMAIN d THEN d[k] ELSE default
DictPut(d, k, v) == [x \in (DOMAIN d) \cup {k} |-> IF x = k THEN v ELSE d[x]]

(***************************************************************************)
(* The messages of a LangGraph result.  A message has a type; a tool       *)
(* message has the name of the tool that produced it, an ai message has    *)
(* content ("" when it only carries tool calls).  getattr(msg, "name",     *)
(* None) of a message without a name is modelled by name = "".             *)
(***************************************************************************)
ToolNames == {"roll_dice", "apply_damage", "request_clarification", "get_party_status"}
ToolMsg(n) == [type |-> "tool", name |-> n, content |-> ""]
AiMsg(c) == [type |-> "ai", name |-> "", content |-> c]
Messages == {ToolMsg(n) : n \in ToolNames} \cup {AiMsg(c) : c \in {"", "narration"}}
MessageLists == UNION {[1..n -> Messages] : n \in 0..MaxTrace}

\* game_logic.py DICE_RETRY_MESSAGE / the message built by the caller
BasePrompt == <<"message">>
RetryPrompt == <<"message", "DICE_RETRY_MESSAGE">>
SilentText == "The Dungeon Master is silent..."

RECURSIVE ExtractToolsLoop(_, _, _)
ExtractToolsLoop(messages, i, tools) ==
    IF i > Len(messages) THEN tools
    ELSE LET msg == messages[i] IN
         IF msg.type = "tool" /\ msg.name # ""
         THEN ExtractToolsLoop(messages, i + 1,
                               DictPut(tools, msg.name, DictGet(tools, msg.name, 0) + 1))
         ELSE ExtractToolsLoop(messages, i + 1, tools)

\* _extract_tools_used: count tool invocations by name
_extract_tools_used(messages) == ExtractToolsLoop(messages, 1, EmptyDict)

NeedsDiceRetry_NoNegation(tools_used) ==
    DictGet(tools_used, "apply_damage", 0) > 0 /\ DictGet(tools_used, "roll_dice", 0) > 0

NeedsDiceRetry_AnyDamage(tools_used) ==
    DictGet(tools_used, "apply_damage", 0) > 0

\* _needs_dice_retry: apply_damage was called but roll_dice was not
_needs_dice_retry(tools_used) ==
    LET has_damage == DictGet(tools_used, "apply_damage", 0) > 0
        has_dice == DictGet(tools_used, "roll_dice", 0) > 0
    IN has_damage /\ ~has_dice

RECURSIVE LastAiText(_, _)
LastAiText(messages, i) ==
    IF i = 0 THEN ""
    ELSE IF messages[i].type = "ai" /\ messages[i].content # ""
         THEN messages[i].content
         ELSE LastAiText(messages, i - 1)

\* _extract_response: (clarification_requested, response_text)
_extract_response(all_messages) ==
    LET clarification_requested ==
            \E i \in 1..Len(all_messages) :
                all_messages[i].type = "tool" /\ all_messages[i].name = "request_clarification"
        found == LastAiText(all_messages, Len(all_messages))
    IN [clar |-> clarification_requested,
        text |-> IF found = "" THEN SilentText ELSE found]

DMResponse(resolved, text) == [resolved |-> resolved, text |-> text]
NoResponse == [resolved |-> FALSE, text |-> ""]

(***************************************************************************)
(* _invoke_dm_conversational, split at its two blocking agent.invoke       *)
(* calls.  The agent answers with any message list, or raises.             *)
(***************************************************************************)
InvokeFirst ==
    /\ ipc = "call"
    /\ \E messages \in MessageLists :
        LET tools_used == _extract_tools_used(messages)
            r == _extract_response(messages)
        IN /\ trace1' = messages
           /\ invocations' = invocations + 1
           /\ sent' = Append(sent, BasePrompt)
           /\ IF ~r.clar /\ _needs_dice_retry(tools_used)
              THEN /\ ipc' = "retry"
                   /\ resp' = resp
              ELSE /\ ipc' = "returned"
                   /\ resp' = DMResponse(~r.clar, r.text)
    /\ UNCHANGED <<trace2, storeVars, now, tableVars, callVars, playVars>>

InvokeFirstRaises ==
    /\ ipc = "call"
    /\ invocations' = invocations + 1
    /\ sent' = Append(sent, BasePrompt)
    /\ ipc' = "raised"
    /\ UNCHANGED <<trace1, trace2, resp, storeVars, now, tableVars, callVars, playVars>>

InvokeRetry ==
    /\ ipc = "retry"
    /\ \E retry_messages \in MessageLists :
        LET r == _extract_response(retry_messages)
        IN /\ trace2' = retry_messages
           /\ invocations' = invocations + 1
           /\ sent' = Append(sent, RetryPrompt)
           /\ ipc' = "returned"
           /\ resp' = DMResponse(~r.clar, r.text)
    /\ UNCHANGED <<trace1, storeVars, now, tableVars, callVars, playVars>>

InvokeRetryRaises ==
    /\ ipc = "retry"
    /\ invocations' = invocations + 1
    /\ sent' = Append(sent, RetryPrompt)
    /\ ipc' = "raised"
    /\ UNCHANGED <<trace1, trace2, resp, storeVars, now, tableVars, callVars, playVars>>

InvokeIdle ==
    /\ ipc = "call" /\ trace1 = <<>> /\ trace2 = <<>>
    /\ invocations = 0 /\ sent = <<>> /\ resp = NoResponse

\* the game of this chat, and a game of another chat with its player
ThisGame == "g1"
OtherGame == "g2"
OtherPlayerId == MaxPlayerId + 1
ThisChat == "c1"
OtherChat == "c2"
GameRow(id, chat_id) == [id |-> id, chat_id |-> chat_id]

\* select(GameORM).where(GameORM.chat_id == chat_id)
GamesOfChat_None(chat_id) == SelectSeq(games, LAMBDA g : FALSE)

GamesOfChat(chat_id) == SelectSeq(games, LAMBDA g : g.chat_id = chat_id)

\* get_game_by_chat: scalar_one_or_none of the rows of the chat, <<>> for None
get_game_by_chat(chat_id) ==
    IF GamesOfChat(chat_id) = <<>> THEN <<>> ELSE <<GamesOfChat(chat_id)[1].id>>

\* the games table at the start: the rows of other chats, and this chat's
\* row when its game exists
\* the rows of the players and game_events tables with the other game's id
NoOtherGame == [players |-> <<>>, events |-> <<>>]
OtherGameRows ==
    [players |-> <<[id |-> OtherPlayerId, user |-> 1, name |-> "Ara", is_ai |-> FALSE,
                    hp |-> MaxHP, max_hp |-> MaxHP]>>,
     events |-> <<[type |-> "narration", turn |-> 1, actor |-> 0, content |-> <<"text">>]>>]

GamesInit(others) ==
    /\ games = others \o (IF status = "none" THEN <<>> ELSE <<GameRow(ThisGame, ThisChat)>>)
    /\ other_game = IF others = <<>> THEN NoOtherGame ELSE OtherGameRows

StoreIdle ==
    /\ status = "none" /\ players = <<>> /\ current = 0 /\ turn = 0
    /\ updated_at = 0 /\ events = <<>> /\ story_summary = 0

NoCall == [op |-> "none"]
TablesEmpty ==
    /\ zones = {} /\ adjacencies = {} /\ zone_entities = {}
    /\ dm_notes = {} /\ campaign_sections = {} /\ inventory_items = {}
    /\ spell_slots = {}

CallIdle == calls = 0 /\ lastCall = NoCall /\ workers = <<>> /\ TablesEmpty

NoGame == [status |-> "none", players |-> <<>>, current_player_id |-> 0, turn_number |-> 0]
NoChatData == [user |-> 0, exchange_count |-> 0]
PlayStart ==
    /\ hpc = "idle" /\ hgame = NoGame /\ hplayer = 0 /\ huser = 0 /\ hexch = 0
    /\ hout = "none" /\ chat_data = NoChatData
    /\ tpc = "idle" /\ tgame = NoGame /\ tplayer = 0 /\ texch = 0
    /\ tout = "none" /\ tgen = "none" /\ taction = "none"
    /\ tdepth = 0 /\ tsent = "none"
    /\ lastPrompt = "none"

PlayIdle == PlayStart /\ conv = <<>> /\ patience = 0

InitInvoke ==
    /\ InvokeIdle /\ StoreIdle /\ now = 0 /\ CallIdle /\ PlayIdle
    /\ GamesInit(<<>>)

NextInvoke == InvokeFirst \/ InvokeFirstRaises \/ InvokeRetry \/ InvokeRetryRaises

SpecInvoke == InitInvoke /\ [][NextInvoke]_vars

(***************************************************************************)
(* The session store (database.py).  Each operation is one transaction     *)
(* (one `with get_session()` block).  A Player row is a record; the rows   *)
(* of a game are kept in join order (ascending id).  A GameEvent row has    *)
(* its type, the turn_number and actor the caller passed, and its content. *)
(***************************************************************************)
Max(a, b) == IF a >= b THEN a ELSE b
Min(a, b) == IF a <= b THEN a ELSE b

Player(id, user, name, ai, hp, max_hp) ==
    [id |-> id, user |-> user, name |-> name, is_ai |-> ai, hp |-> hp, max_hp |-> max_hp]

Event(type, turn_number, actor, content) ==
    [type |-> type, turn |-> turn_number, actor |-> actor, content |-> content]

\* get_game_by_id / get_game_by_chat: the Game dataclass with its players
LoadGame ==
    [status |-> status, players |-> players,
     current_player_id |-> current, turn_number |-> turn]

\* str.lower() on the character and zone names the model uses
Lower(name) ==
    CASE name \in {"Ara", "ARA", "ara"} -> "ara"
      [] name \in {"Bryn", "BRYN", "bryn"} -> "bryn"
      [] name \in {"Hall", "hall"} -> "hall"
      [] name \in {"Door", "door"} -> "door"
      [] name \in {"Yard", "yard"} -> "yard"
      [] name \in {"Cave", "cave"} -> "cave"
      [] OTHER -> name

\* a lookup that falls back on the first player when no name matches
RECURSIVE FindTarget_DefaultsToFirst(_, _, _)
FindTarget_DefaultsToFirst(ps, player_name, i) ==
    IF i > Len(ps) THEN (IF ps = <<>> THEN 0 ELSE 1)
    ELSE IF Lower(ps[i].name) = Lower(player_name) THEN i
         ELSE FindTarget_DefaultsToFirst(ps, player_name, i + 1)

\* the first player whose lower-cased name matches, 0 for None
RECURSIVE FindTarget(_, _, _)
FindTarget(ps, player_name, i) ==
    IF i > Len(ps) THEN 0
    ELSE IF Lower(ps[i].name) = Lower(player_name) THEN i
         ELSE FindTarget(ps, player_name, i + 1)

\* update_player_hp: orm.hp = max(0, hp)
update_player_hp(ps, i, hp) == [ps EXCEPT ![i].hp = Max(0, hp)]

NewHp_NoUpperClamp(target, amount) == Max(0, target.hp + amount)

\* apply_damage: new_hp = max(0, min(target.max_hp, target.hp + amount))
NewHp(target, amount) == Max(0, Min(target.max_hp, target.hp + amount))

Abs(n) == IF n < 0 THEN -n ELSE n

\* apply_damage: the text of the system event, which is also the result
DamageContent(target, amount, new_hp) ==
    IF amount < 0
    THEN <<target.name, "takes", Abs(amount), target.hp, new_hp>>
    ELSE <<target.name, "heals", amount, target.hp, new_hp>>

\* apply_damage: "No player named '<name>' found. Available players: <names>"
NoPlayerNamed(game, player_name) ==
    <<"No player named", player_name, "Available players",
      [i \in 1..Len(game.players) |-> game.players[i].name]>>

(***************************************************************************)
(* tools.py apply_damage(player_name, amount, reason), as one call.        *)
(***************************************************************************)
ToolArgNames == {"Ara", "ara", "BRYN", "Zed"}
Amounts == (-MaxAmount)..MaxAmount

apply_damage(player_name, amount) ==
    LET game == LoadGame
        t == FindTarget(game.players, player_name, 1)
    IN IF game.status = "none"
       THEN /\ lastCall' = [op |-> "apply_damage", name |-> player_name,
                            amount |-> amount, result |-> <<"Error: game not found.">>]
            /\ UNCHANGED <<players, events>>
       ELSE IF t = 0
       THEN /\ lastCall' = [op |-> "apply_damage", name |-> player_name,
                            amount |-> amount, result |-> NoPlayerNamed(game, player_name)]
            /\ UNCHANGED <<players, events>>
       ELSE LET target == game.players[t]
                new_hp == NewHp(target, amount)
                event_content == DamageContent(target, amount, new_hp)
            IN /\ players' = update_player_hp(players, t, new_hp)
               /\ events' = Append(events,
                                   Event("system", game.turn_number, 0, event_content))
               /\ lastCall' = [op |-> "apply_damage", name |-> player_name,
                               amount |-> amount, result |-> event_content]

ApplyDamageCall ==
    /\ calls < MaxCalls
    /\ \E player_name \in ToolArgNames, amount \in Amounts :
        apply_damage(player_name, amount)
    /\ calls' = calls + 1
    /\ UNCHANGED <<status, current, turn, updated_at, story_summary, now, tableVars, invokeVars, playVars>>

\* a party of two, as /dnd_join leaves it: hp = max_hp
InitTools ==
    /\ InvokeIdle /\ CallIdle /\ PlayIdle /\ now = 0
    /\ status = "active" /\ current = 1 /\ turn = 1 /\ updated_at = 0
    /\ events = <<>> /\ story_summary = 0
    /\ \E m1, m2 \in 1..MaxHP :
        players = <<Player(1, 1, "Ara", FALSE, m1, m1),
                    Player(2, 2, "Bryn", FALSE, m2, m2)>>
    /\ GamesInit(<<>>)

NextTools == ApplyDamageCall

SpecTools == InitTools /\ [][NextTools]_vars

(***************************************************************************)
(* game_logic.py advance_turn(game): the arguments it passes to            *)
(* update_game_current_player, or the ValueError it raises.                *)
(***************************************************************************)
\* the 0-based index of the first player with this id, -1 for None
RECURSIVE CurrentIdx(_, _, _)
CurrentIdx(ps, id, i) ==
    IF i >= Len(ps) THEN -1
    ELSE IF ps[i + 1].id = id THEN i
         ELSE CurrentIdx(ps, id, i + 1)

AdvanceTurn_NoWrap(game) ==
    IF Len(game.players) = 0 THEN [raised |-> TRUE, next_player |-> 0, new_turn |-> 0]
    ELSE IF game.current_player_id = 0
    THEN [raised |-> FALSE, next_player |-> game.players[1].id, new_turn |-> 1]
    ELSE LET current_idx == CurrentIdx(game.players, game.current_player_id, 0)
         IN [raised |-> FALSE,
             next_player |-> game.players[Min(current_idx + 1, Len(game.players) - 1) + 1].id,
             new_turn |-> game.turn_number + 1]

advance_turn(game) ==
    IF Len(game.players) = 0
    THEN [raised |-> TRUE, next_player |-> 0, new_turn |-> 0]
    ELSE IF game.current_player_id = 0
    THEN [raised |-> FALSE, next_player |-> game.players[1].id, new_turn |-> 1]
    ELSE LET current_idx == CurrentIdx(game.players, game.current_player_id, 0)
             next_player ==
                 IF current_idx = -1 THEN game.players[1]
                 ELSE game.players[((current_idx + 1) % Len(game.players)) + 1]
         IN [raised |-> FALSE, next_player |-> next_player.id,
             new_turn |-> game.turn_number + 1]

\* an update of the current player that leaves updated_at alone
update_game_current_player_KeepsStamp(player_id, turn_number) ==
    IF status = "none"
    THEN UNCHANGED <<current, turn, updated_at>>
    ELSE /\ current' = player_id
         /\ turn' = turn_number
         /\ updated_at' = updated_at

\* update_game_current_player(game_id, player_id, turn_number)
update_game_current_player(player_id, turn_number) ==
    IF status = "none"
    THEN UNCHANGED <<current, turn, updated_at>>
    ELSE /\ current' = player_id
         /\ turn' = turn_number
         /\ updated_at' = now

\* one call of advance_turn on a freshly loaded Game
AdvanceTurnCall ==
    /\ calls < MaxTurnCalls
    /\ LET r == advance_turn(LoadGame)
       IN /\ IF r.raised
             THEN UNCHANGED <<current, turn, updated_at>>
             ELSE update_game_current_player(r.next_player, r.new_turn)
          /\ lastCall' = [op |-> "advance_turn", raised |-> r.raised,
                          returned |-> r.next_player]
    /\ calls' = calls + 1
    /\ UNCHANGED <<status, players, events, story_summary, now, tableVars, invokeVars, playVars>>

\* the parties of up to MaxParty players, ids ascending in join order
RECURSIVE Ascending(_, _)
Ascending(ids, i) ==
    i >= Len(ids) \/ (ids[i] < ids[i + 1] /\ Ascending(ids, i + 1))
PartyIds ==
    {ids \in UNION {[1..n -> 1..MaxPlayerId] : n \in 0..MaxParty} : Ascending(ids, 1)}

InitTurn ==
    /\ InvokeIdle /\ CallIdle /\ PlayIdle /\ now = 0
    /\ status = "active" /\ current = 0 /\ turn = 0 /\ updated_at = 0
    /\ events = <<>> /\ story_summary = 0
    /\ \E ids \in PartyIds :
        players = [i \in 1..Len(ids) |-> Player(ids[i], i, "Ara", FALSE, MaxHP, MaxHP)]
    /\ GamesInit(<<>>)

NextTurn == AdvanceTurnCall

SpecTurn == InitTurn /\ [][NextTurn]_vars

(***************************************************************************)
(* The resolution path shared by the chat handlers and the idle-turn       *)
(* monitor (game_logic.py).  The DM call (_invoke_dm_conversational) either *)
(* returns a resolved response, returns a clarification request, or raises. *)
(***************************************************************************)
TextEvent(evs, type, turn_number, actor) ==
    Append(evs, Event(type, turn_number, actor, <<"text">>))

\* get_active_player(game): the id of the active player, 0 for None
get_active_player(game) ==
    IF game.current_player_id = 0 THEN 0
    ELSE IF \E i \in 1..Len(game.players) : game.players[i].id = game.current_player_id
         THEN game.current_player_id
         ELSE 0

\* get_player_by_user(game.id, user_id): the id of the user's player, 0 for None
get_player_by_user(user) ==
    IF \E i \in 1..Len(players) : players[i].user = user
    THEN players[CHOOSE i \in 1..Len(players) : players[i].user = user].id
    ELSE 0

IsAi(id) == \E i \in 1..Len(players) : players[i].id = id /\ players[i].is_ai

\* start_player_action: the player_action event it adds before the DM call
StartEvents(game, player) ==
    TextEvent(events, "player_action", game.turn_number, player)

\* continue_player_action: the clarification reply it adds before the DM call
ContinueEvents(game, player) ==
    TextEvent(events, "player_clarification", game.turn_number, player)

\* continue_player_action: force_resolve = exchange_count >= 25
ContinuePrompt(exchange_count) ==
    IF exchange_count >= ForceResolveAt THEN "continue+must_resolve" ELSE "continue"

\* finalize_action(game, player, text) on the caller's Game object: the
\* resolution event, the summary refresh (its failure is swallowed), the turn
\* advance, the reload and the narration of the next scene (which may raise).
finalize_action(game, summary_ok, narrate_ok) ==
    LET adv == advance_turn(game)
        ev1 == TextEvent(events, "resolution", game.turn_number, 0)
    IN /\ ~adv.raised
       /\ story_summary' = IF summary_ok /\ status # "none"
                            THEN game.turn_number ELSE story_summary
       /\ update_game_current_player(adv.next_player, adv.new_turn)
       /\ events' = IF narrate_ok
                    THEN TextEvent(ev1, "narration", adv.new_turn, 0)
                    ELSE ev1
       /\ UNCHANGED <<status, players>>

(***************************************************************************)
(* dnd_bot.py: the /dnd_action conversation.  Updates are handled one at a *)
(* time; a handler gives way to the monitor task at its awaits.            *)
(***************************************************************************)
ChatUsers == {players[i].user : i \in {j \in 1..Len(players) : ~players[j].is_ai}}

\* _cleanup_chat_data + return ConversationHandler.END
EndConversation ==
    /\ chat_data' = NoChatData
    /\ conv' = [conv EXCEPT ![huser] = "END"]
    /\ hpc' = "idle"
    /\ hgame' = NoGame /\ hplayer' = 0 /\ huser' = 0 /\ hexch' = 0

dnd_action_start(user, with_args) ==
    /\ hpc = "idle" /\ user \in DOMAIN conv /\ conv[user] = "END"
    /\ turn < MaxTurn /\ Len(events) < MaxEvents
    /\ LET game == LoadGame
           active_player == get_active_player(game)
           player == get_player_by_user(user)
       IN /\ game.status = "active"
          /\ active_player # 0 /\ player # 0
          /\ player = active_player
          /\ IF with_args
             THEN /\ hpc' = "start" /\ hgame' = game /\ hplayer' = player
                  /\ huser' = user /\ hout' = "none"
                  /\ UNCHANGED <<conv, chat_data, hexch>>
             ELSE /\ chat_data' = [user |-> user, exchange_count |-> 0]
                  /\ conv' = [conv EXCEPT ![user] = "AWAITING_ACTION"]
                  /\ UNCHANGED <<hpc, hgame, hplayer, huser, hout, hexch>>
    /\ UNCHANGED <<storeVars, now, tableVars, invokeVars, callVars, timerVars, patience, lastPrompt>>

dnd_action_receive(user) ==
    /\ hpc = "idle" /\ user \in DOMAIN conv /\ conv[user] = "AWAITING_ACTION"
    /\ user = chat_data.user
    /\ hpc' = "start" /\ hgame' = LoadGame /\ hplayer' = get_player_by_user(user)
    /\ huser' = user /\ hout' = "none"
    /\ UNCHANGED <<conv, chat_data, hexch>>
    /\ UNCHANGED <<storeVars, now, tableVars, invokeVars, callVars, timerVars, patience, lastPrompt>>

\* _handle_action_text from its call of start_player_action on
HandleActionText ==
    /\ hpc = "start"
    /\ lastPrompt' = "start"
    /\ \/ /\ hout' = "error"
          /\ events' = StartEvents(hgame, hplayer)
          /\ EndConversation
       \/ /\ hout' = "resolved"
          /\ events' = StartEvents(hgame, hplayer)
          /\ hpc' = "finalize"
          /\ UNCHANGED <<conv, chat_data, hgame, hplayer, huser, hexch>>
       \/ /\ hout' = "clarify"
          /\ events' = TextEvent(StartEvents(hgame, hplayer), "dm_clarification",
                                 hgame.turn_number, 0)
          /\ chat_data' = [user |-> huser, exchange_count |-> 1]
          /\ conv' = [conv EXCEPT ![huser] = "AWAITING_CLARIFICATION"]
          /\ hpc' = "idle"
          /\ hgame' = NoGame /\ hplayer' = 0 /\ huser' = 0 /\ hexch' = 0
    /\ UNCHANGED <<status, players, current, turn, updated_at, story_summary, now, tableVars,
                   invokeVars, callVars, timerVars, patience>>

dnd_action_clarification(user) ==
    /\ hpc = "idle" /\ user \in DOMAIN conv /\ conv[user] = "AWAITING_CLARIFICATION"
    /\ user = chat_data.user
    /\ chat_data.exchange_count <= patience
    /\ hpc' = "continue" /\ hgame' = LoadGame /\ hplayer' = get_player_by_user(user)
    /\ huser' = user /\ hexch' = chat_data.exchange_count /\ hout' = "none"
    /\ UNCHANGED <<conv, chat_data>>
    /\ UNCHANGED <<storeVars, now, tableVars, invokeVars, callVars, timerVars, patience, lastPrompt>>

\* dnd_action_clarification from its call of continue_player_action on
HandleClarification ==
    /\ hpc = "continue"
    /\ lastPrompt' = ContinuePrompt(hexch)
    /\ \/ /\ hout' = "error"
          /\ events' = ContinueEvents(hgame, hplayer)
          /\ EndConversation
       \/ /\ hout' = "resolved"
          /\ events' = ContinueEvents(hgame, hplayer)
          /\ hpc' = "finalize"
          /\ UNCHANGED <<conv, chat_data, hgame, hplayer, huser, hexch>>
       \/ /\ hout' = "clarify"
          /\ events' = TextEvent(ContinueEvents(hgame, hplayer), "dm_clarification",
                                 hgame.turn_number, 0)
          /\ chat_data' = [chat_data EXCEPT !.exchange_count = hexch + 1]
          /\ hpc' = "idle"
          /\ hgame' = NoGame /\ hplayer' = 0 /\ huser' = 0 /\ hexch' = 0
          /\ UNCHANGED conv
    /\ UNCHANGED <<status, players, current, turn, updated_at, story_summary, now, tableVars,
                   invokeVars, callVars, timerVars, patience>>

\* _send_resolution: finalize_action in a thread, the replies, the cleanup
SendResolution ==
    /\ hpc = "finalize"
    /\ \/ /\ \E summary_ok \in BOOLEAN : finalize_action(hgame, summary_ok, TRUE)
          /\ hout' = "finalized"
       \/ /\ \E summary_ok \in BOOLEAN : finalize_action(hgame, summary_ok, FALSE)
          /\ hout' = "finalize_error"
    /\ EndConversation
    /\ UNCHANGED <<now, tableVars, invokeVars, callVars, timerVars, patience, lastPrompt>>

dnd_action_cancel(user) ==
    /\ hpc = "idle" /\ user \in DOMAIN conv /\ conv[user] # "END"
    /\ chat_data' = NoChatData
    /\ conv' = [conv EXCEPT ![user] = "END"]
    /\ UNCHANGED <<hpc, hgame, hplayer, huser, hexch, hout, patience, lastPrompt>>
    /\ UNCHANGED <<storeVars, now, tableVars, invokeVars, callVars, timerVars>>

HumanStep ==
    \/ \E user \in ChatUsers, with_args \in BOOLEAN : dnd_action_start(user, with_args)
    \/ \E user \in ChatUsers : dnd_action_receive(user)
    \/ HandleActionText
    \/ \E user \in ChatUsers : dnd_action_clarification(user)
    \/ HandleClarification
    \/ SendResolution
    \/ \E user \in ChatUsers : dnd_action_cancel(user)

(***************************************************************************)
(* turn_timer.py check_turn_timeouts and ai_player.py auto_play_turn: the  *)
(* idle-turn monitor, a job of its own beside the update handler.          *)
(***************************************************************************)
IsStale_AnyAge(timeout_seconds) ==
    LET cutoff == now
    IN status = "active" /\ updated_at <= cutoff

\* get_stale_active_games(timeout_seconds) for the one game of the model
IsStale(timeout_seconds) ==
    LET cutoff == now - timeout_seconds
    IN status = "active" /\ updated_at <= cutoff

\* an exception that leaves auto_play_turn: inside a chained call it reaches
\* the except of the enclosing call's finalize block, which sends an error
\* message; from the outermost call it reaches check_turn_timeouts, which
\* writes it to the log only
Escaped == IF tdepth > 0 THEN "error" ELSE tsent

\* one sweep that finds the game stale: the notice, then auto_play_turn
check_turn_timeouts ==
    /\ tpc = "idle"
    /\ turn < MaxTurn /\ Len(events) < MaxEvents
    /\ IsStale(TURN_TIMEOUT_SECONDS)
    /\ get_active_player(LoadGame) # 0
    /\ tpc' = "auto" /\ tdepth' = 0
    /\ tsent' = "timeout_notice"
    /\ UNCHANGED <<tgame, tplayer, texch, tout, tgen, taction>>
    /\ UNCHANGED <<storeVars, now, tableVars, invokeVars, callVars, humanVars, lastPrompt>>

\* auto_play_turn: its entry checks
AutoPlayEntry ==
    /\ tpc = "auto"
    /\ turn < MaxTurn /\ Len(events) < MaxEvents
    /\ LET game == LoadGame
           player == get_active_player(game)
       IN IF game.status # "active" \/ player = 0
          THEN /\ tpc' = "idle"
               /\ UNCHANGED <<tgame, tplayer>>
          ELSE /\ tpc' = "gen"
               /\ tgame' = game
               /\ tplayer' = player
    /\ tgen' = "none" /\ taction' = "none" /\ tout' = "none" /\ texch' = 0
    /\ UNCHANGED <<tdepth, tsent>>
    /\ UNCHANGED <<storeVars, now, tableVars, invokeVars, callVars, humanVars, lastPrompt>>

\* generate_ai_action in a thread: the default text when the game or the
\* player is gone, else one LLM call, whose exception leaves auto_play_turn
GenerateAiAction ==
    /\ tpc = "gen"
    /\ IF status = "none" \/ ~(\E i \in 1..Len(players) : players[i].id = tplayer)
       THEN /\ tgen' = "default" /\ taction' = "I look around cautiously."
            /\ tpc' = "start" /\ tsent' = "ai_action"
       ELSE \/ /\ tgen' = "ok" /\ taction' = "llm"
               /\ tpc' = "start" /\ tsent' = "ai_action"
            \/ /\ tgen' = "raised" /\ taction' = "none"
               /\ tpc' = "idle" /\ tsent' = Escaped
    /\ UNCHANGED <<tgame, tplayer, texch, tout, tdepth>>
    /\ UNCHANGED <<storeVars, now, tableVars, invokeVars, callVars, humanVars, lastPrompt>>

\* auto_play_turn: start_player_action in a thread
AutoPlayStart ==
    /\ tpc = "start"
    /\ lastPrompt' = "start"
    /\ events' = StartEvents(tgame, tplayer)
    /\ texch' = 0
    /\ \/ tout' = "error" /\ tpc' = "idle" /\ tsent' = "error"
       \/ tout' = "resolved" /\ tpc' = "loop" /\ UNCHANGED tsent
       \/ tout' = "clarify" /\ tpc' = "loop" /\ UNCHANGED tsent
    /\ UNCHANGED <<tgame, tplayer, tgen, taction, tdepth>>
    /\ UNCHANGED <<status, players, current, turn, updated_at, story_summary, now, tableVars,
                   invokeVars, callVars, humanVars>>

\* the clarification loop without its bound on exchange_count
AutoPlayClarify_NoLimit ==
    /\ tpc = "loop"
    /\ tout = "clarify"
    /\ texch' = texch + 1
    /\ events' = TextEvent(TextEvent(events, "dm_clarification", tgame.turn_number, 0),
                           "player_clarification", tgame.turn_number, tplayer)
    /\ lastPrompt' = ContinuePrompt(texch + 1)
    /\ tout' = "clarify" /\ tpc' = "loop" /\ tsent' = "ai_reply"
    /\ UNCHANGED <<tgame, tplayer, tgen, taction, tdepth>>
    /\ UNCHANGED <<status, players, current, turn, updated_at, story_summary, now, tableVars,
                   invokeVars, callVars, humanVars>>

\* auto_play_turn: one pass of the clarification loop (at most 3)
AutoPlayClarify ==
    /\ tpc = "loop"
    /\ tout = "clarify" /\ texch < MaxAiExchanges
    /\ texch' = texch + 1
    /\ \/ \* generate_ai_clarification_response raises
          /\ events' = TextEvent(events, "dm_clarification", tgame.turn_number, 0)
          /\ tout' = "reply_raised" /\ tpc' = "idle" /\ tsent' = Escaped
          /\ UNCHANGED lastPrompt
       \/ /\ events' = TextEvent(TextEvent(events, "dm_clarification",
                                           tgame.turn_number, 0),
                                 "player_clarification", tgame.turn_number, tplayer)
          /\ lastPrompt' = ContinuePrompt(texch + 1)
          /\ \/ tout' = "error" /\ tpc' = "idle" /\ tsent' = "error"
             \/ tout' = "resolved" /\ tpc' = "loop" /\ tsent' = "ai_reply"
             \/ tout' = "clarify" /\ tpc' = "loop" /\ tsent' = "ai_reply"
    /\ UNCHANGED <<tgame, tplayer, tgen, taction, tdepth>>
    /\ UNCHANGED <<status, players, current, turn, updated_at, story_summary, now, tableVars,
                   invokeVars, callVars, humanVars>>

\* auto_play_turn: dm_response.resolved = True if needed, then finalize_action
AutoPlayFinalize ==
    /\ tpc = "loop"
    /\ ~(tout = "clarify" /\ texch < MaxAiExchanges)
    /\ \/ /\ \E summary_ok \in BOOLEAN : finalize_action(tgame, summary_ok, TRUE)
          /\ tout' = "finalized"
          /\ IF IsAi(advance_turn(tgame).next_player)
             THEN tpc' = "auto" /\ tdepth' = tdepth + 1 /\ tsent' = "scene"
             ELSE tpc' = "idle" /\ tsent' = "turn_prompt" /\ UNCHANGED tdepth
       \/ /\ \E summary_ok \in BOOLEAN : finalize_action(tgame, summary_ok, FALSE)
          /\ tout' = "finalize_error"
          /\ tpc' = "idle" /\ tsent' = "error" /\ UNCHANGED tdepth
    /\ UNCHANGED <<tgame, tplayer, texch, tgen, taction>>
    /\ UNCHANGED <<now, tableVars, invokeVars, callVars, humanVars, lastPrompt>>

Tick ==
    /\ now < MaxTicks * TickSeconds
    /\ now' = now + TickSeconds
    /\ UNCHANGED <<storeVars, invokeVars, callVars, playVars, tableVars>>

TimerStep ==
    \/ check_turn_timeouts
    \/ AutoPlayEntry
    \/ GenerateAiAction
    \/ AutoPlayStart
    \/ AutoPlayClarify
    \/ AutoPlayFinalize

(***************************************************************************)
(* SpecPlay: a started session (after start_game: first player active,     *)
(* turn 1, the intro narration logged) of two players, each human or       *)
(* automated (a row added with is_ai=True).                                *)
(***************************************************************************)
PartyNames == <<"Ara", "Bryn", "Cade", "Dov">>
Parties == UNION {[1..n -> BOOLEAN] : n \in 2..MaxPlayParty}
StartedParty(flags) ==
    [i \in 1..Len(flags) |->
        Player(i, IF flags[i] THEN -999 ELSE i, PartyNames[i], flags[i], MaxHP, MaxHP)]

StartedGame(flags) ==
    /\ status = "active"
    /\ players = StartedParty(flags)
    /\ current = 1 /\ turn = 1 /\ updated_at = 0 /\ now = 0
    /\ events = <<Event("narration", 1, 0, <<"text">>)>>
    /\ story_summary = 0
    /\ conv = [u \in {i \in 1..Len(flags) : ~flags[i]} |-> "END"]

InitPlay ==
    /\ InvokeIdle /\ CallIdle /\ PlayStart
    /\ patience = MaxPatience
    /\ \E flags \in Parties : StartedGame(flags)
    /\ GamesInit(<<>>)

NextPlay == HumanStep \/ TimerStep \/ Tick

SpecPlay == InitPlay /\ [][NextPlay]_vars

(***************************************************************************)
(* SpecDialog: one chat of human players and a player who keeps answering  *)
(* the DM's questions, to follow the exchange count to its maximum.        *)
(***************************************************************************)
InitDialog ==
    /\ InvokeIdle /\ CallIdle /\ PlayStart
    /\ patience = ForceResolveAt + MaxExtraExchanges
    /\ StartedGame([i \in 1..2 |-> FALSE])
    /\ GamesInit(<<>>)

NextDialog == HumanStep

SpecDialog == InitDialog /\ [][NextDialog]_vars

(***************************************************************************)
(* The tables a game owns (database.py) and delete_game.  The store        *)
(* variables hold the game of this chat, ThisGame; the rows of OtherGame   *)
(* belong to a game of another chat.                                       *)
(***************************************************************************)

SetMax(S) == CHOOSE x \in S : \A y \in S : y <= x

\* the INTEGER PRIMARY KEY of a new row: one above the largest in the table
NextId(rows) == IF rows = {} THEN 1 ELSE SetMax({r.id : r \in rows}) + 1

PlayerIds == {players[i].id : i \in 1..Len(players)}

ZoneIdsOf(game_id) == {z.id : z \in {r \in zones : r.game_id = game_id}}

add_dm_note(game_id) ==
    dm_notes' = dm_notes \cup {[id |-> NextId(dm_notes), game_id |-> game_id]}

\* one transaction adds the whole list of sections
store_campaign_sections(game_id, sections) ==
    campaign_sections' = campaign_sections \cup
        {[id |-> NextId(campaign_sections) + i, game_id |-> game_id, section_order |-> i] :
            i \in 0..(sections - 1)}

\* the row is stored with the quantity it is given
add_inventory_item(player_id, game_id, item_name, quantity) ==
    inventory_items' = inventory_items \cup
        {[id |-> NextId(inventory_items), player_id |-> player_id, game_id |-> game_id,
          item_name |-> item_name, quantity |-> quantity]}

\* update_inventory_item_quantity(item_id, quantity): delete at quantity <= 0
update_inventory_item_quantity(item_id, quantity) ==
    inventory_items' =
        IF quantity <= 0
        THEN {r \in inventory_items : r.id # item_id}
        ELSE {IF r.id = item_id THEN [r EXCEPT !.quantity = quantity] ELSE r :
                r \in inventory_items}

ItemRows(player_id, item_name) ==
    {r \in inventory_items : r.player_id = player_id /\ r.item_name = item_name}

\* remove_inventory_item_by_name for the one row scalar_one_or_none returns
remove_inventory_item_by_name(player_id, item_name, quantity) ==
    LET orm == CHOOSE r \in ItemRows(player_id, item_name) : TRUE
        new_qty == orm.quantity - quantity
    IN inventory_items' =
        IF new_qty <= 0
        THEN inventory_items \ {orm}
        ELSE (inventory_items \ {orm}) \cup {[orm EXCEPT !.quantity = new_qty]}

create_spell_slots(player_id) ==
    spell_slots' = spell_slots \cup {[id |-> NextId(spell_slots), player_id |-> player_id]}

\* uq_zone_game_name: the name is compared as stored, case included
ZoneNameTaken(game_id, name) ==
    \E z \in zones : z.game_id = game_id /\ z.name = name

create_zone(game_id, name) ==
    zones' = zones \cup {[id |-> NextId(zones), game_id |-> game_id, name |-> name]}

\* uq_zone_adjacency on (zone_a_id, zone_b_id)
AdjacencyTaken(zone_a_id, zone_b_id) ==
    [zone_a_id |-> Min(zone_a_id, zone_b_id), zone_b_id |-> Max(zone_a_id, zone_b_id)]
        \in adjacencies

add_zone_adjacency(zone_a_id, zone_b_id) ==
    adjacencies' = adjacencies \cup
        {[zone_a_id |-> Min(zone_a_id, zone_b_id), zone_b_id |-> Max(zone_a_id, zone_b_id)]}

place_entity_in_zone_KeepsOld(zone_id, game_id, name) ==
    zone_entities' = zone_entities \cup
        {[zone_id |-> zone_id, game_id |-> game_id, name |-> name]}

place_entity_in_zone(zone_id, game_id, name) ==
    zone_entities' =
        {e \in zone_entities : ~(e.game_id = game_id /\ e.name = name)}
        \cup {[zone_id |-> zone_id, game_id |-> game_id, name |-> name]}

remove_entity_from_zones(game_id, name) ==
    zone_entities' = {e \in zone_entities : ~(e.game_id = game_id /\ e.name = name)}

delete_zone_KeepsEntities(zone_id) ==
    /\ zone_entities' = zone_entities
    /\ adjacencies' = {a \in adjacencies : a.zone_a_id # zone_id /\ a.zone_b_id # zone_id}
    /\ zones' = {z \in zones : z.id # zone_id}

delete_zone(zone_id) ==
    /\ zone_entities' = {e \in zone_entities : e.zone_id # zone_id}
    /\ adjacencies' = {a \in adjacencies : a.zone_a_id # zone_id /\ a.zone_b_id # zone_id}
    /\ zones' = {z \in zones : z.id # zone_id}

\* a clear that does not filter on the game id
clear_zones_AllGames(game_id) ==
    /\ zone_entities' = {}
    /\ adjacencies' = {}
    /\ zones' = {}

clear_zones(game_id) ==
    /\ zone_entities' = {e \in zone_entities : e.game_id # game_id}
    /\ adjacencies' = {a \in adjacencies :
                         /\ a.zone_a_id \notin ZoneIdsOf(game_id)
                         /\ a.zone_b_id \notin ZoneIdsOf(game_id)}
    /\ zones' = {z \in zones : z.game_id # game_id}

delete_game_KeepsSlots(game_id) ==
    /\ clear_zones(game_id)
    /\ dm_notes' = {r \in dm_notes : r.game_id # game_id}
    /\ campaign_sections' = {r \in campaign_sections : r.game_id # game_id}
    /\ inventory_items' = {r \in inventory_items : r.game_id # game_id}
    /\ spell_slots' = spell_slots
    /\ events' = <<>> /\ players' = <<>>
    /\ status' = "none" /\ current' = 0 /\ turn' = 0 /\ updated_at' = 0
    /\ story_summary' = 0
    /\ games' = SelectSeq(games, LAMBDA g : g.id # game_id)
    /\ other_game' = IF game_id = OtherGame THEN NoOtherGame ELSE other_game

\* delete_game(chat_id) for the game of this chat: one transaction
delete_game(game_id) ==
    /\ clear_zones(game_id)
    /\ dm_notes' = {r \in dm_notes : r.game_id # game_id}
    /\ campaign_sections' = {r \in campaign_sections : r.game_id # game_id}
    /\ inventory_items' = {r \in inventory_items : r.game_id # game_id}
    /\ spell_slots' = {r \in spell_slots : r.player_id \notin PlayerIds}
    /\ events' = <<>> /\ players' = <<>>
    /\ status' = "none" /\ current' = 0 /\ turn' = 0 /\ updated_at' = 0
    /\ story_summary' = 0
    /\ games' = SelectSeq(games, LAMBDA g : g.id # game_id)
    /\ other_game' = IF game_id = OtherGame THEN NoOtherGame ELSE other_game

(***************************************************************************)
(* dnd_bot.py: the lobby commands, and game_logic.py start_game one         *)
(* committed transaction at a time.                                        *)
(***************************************************************************)
Users == 1..MaxUsers

\* create_game(chat_id): the insert fails on a second row for the chat
\* (unique chat_id).  The new row gets the id of the chat's deleted game (the
\* largest id plus one, ids are not AUTOINCREMENT), so rows written under
\* that id after the deletion are rows of the new game.
create_game(chat_id) ==
    /\ GamesOfChat(chat_id) = <<>>
    /\ games' = Append(games, GameRow(ThisGame, chat_id))
    /\ UNCHANGED other_game
    /\ status' = "recruiting"
    /\ players' = <<>> /\ current' = 0 /\ turn' = 0 /\ updated_at' = now
    /\ events' = events /\ story_summary' = 0

\* dnd_new: a reply only when the chat has a game, else create_game
dnd_new ==
    /\ hpc = "idle"
    /\ IF get_game_by_chat(ThisChat) # <<>>
       THEN /\ lastCall' = [op |-> "dnd_new", result |-> [kind |-> "already_exists"]]
            /\ UNCHANGED <<storeVars, games, other_game>>
       ELSE /\ create_game(ThisChat)
            /\ lastCall' = [op |-> "dnd_new", result |-> [kind |-> "created"]]
    /\ UNCHANGED <<now, calls, workers, zoneVars, ownedVars, invokeVars, playVars>>

\* dnd_join without the check of the party size
dnd_join_NoPartyLimit(user) ==
    /\ hpc = "idle" /\ status = "recruiting"
    /\ get_player_by_user(user) = 0
    /\ players' = Append(players,
                         Player(Len(players) + 1, user, PartyNames[(Len(players) % PartyLimit) + 1],
                                FALSE, MaxHP, MaxHP))
    /\ UNCHANGED <<status, current, turn, updated_at, events, story_summary, now, tableVars,
                   invokeVars, callVars, playVars>>

\* dnd_join: add_player with the class template's hit points
dnd_join(user) ==
    /\ hpc = "idle" /\ status = "recruiting"
    /\ Len(players) < PartyLimit
    /\ get_player_by_user(user) = 0
    /\ players' = Append(players,
                         Player(Len(players) + 1, user, PartyNames[Len(players) + 1],
                                FALSE, MaxHP, MaxHP))
    /\ UNCHANGED <<status, current, turn, updated_at, events, story_summary, now, tableVars,
                   invokeVars, callVars, playVars>>

\* dnd_start up to start_game's first write: load_campaign may raise
\* FileNotFoundError, else update_game_adventure commits
dnd_start ==
    /\ hpc = "idle" /\ status = "recruiting"
    /\ Len(players) >= MinPlayers
    /\ \/ /\ hout' = "FileNotFoundError" /\ hpc' = "idle"
          /\ UNCHANGED <<updated_at, hgame>>
       \/ /\ hout' = "none" /\ hpc' = "update_game_status"
          /\ hgame' = LoadGame
          /\ updated_at' = now
    /\ UNCHANGED <<status, players, current, turn, events, story_summary, now, tableVars,
                   invokeVars, callVars, timerVars, hplayer, huser, hexch, conv,
                   chat_data, patience, lastPrompt>>

\* start_game: update_game_status(game.id, GameStatus.ACTIVE)
StartGameActivate ==
    /\ hpc = "update_game_status"
    /\ status' = "active" /\ updated_at' = now
    /\ hpc' = "advance_turn"
    /\ UNCHANGED <<players, current, turn, events, story_summary, now, tableVars,
                   invokeVars, callVars, timerVars, hgame, hplayer, huser, hexch,
                   hout, conv, chat_data, patience, lastPrompt>>

\* start_game: first_player = advance_turn(game) on the Game read by dnd_start
StartGameAdvance ==
    /\ hpc = "advance_turn"
    /\ LET adv == advance_turn(hgame)
       IN /\ ~adv.raised
          /\ update_game_current_player(adv.next_player, adv.new_turn)
          /\ hplayer' = adv.next_player
    /\ hpc' = "generate_intro"
    /\ UNCHANGED <<status, players, events, story_summary, now, tableVars,
                   invokeVars, callVars, timerVars, hgame, huser, hexch,
                   hout, conv, chat_data, patience, lastPrompt>>

\* start_game: the reload and generate_intro, whose DM call may raise
StartGameIntro ==
    /\ hpc = "generate_intro"
    /\ \/ /\ hout' = "started"
          /\ events' = TextEvent(events, "narration", turn, 0)
       \/ /\ hout' = "error"
          /\ UNCHANGED events
    /\ hpc' = "idle" /\ hgame' = NoGame /\ hplayer' = 0
    /\ UNCHANGED <<status, players, current, turn, updated_at, story_summary, now, tableVars,
                   invokeVars, callVars, timerVars, huser, hexch,
                   conv, chat_data, patience, lastPrompt>>

\* dnd_end: delete_game(chat_id)
dnd_end ==
    /\ hpc = "idle" /\ status # "none"
    /\ delete_game(ThisGame)
    /\ UNCHANGED <<now, workers, invokeVars, callVars, playVars>>

InitLobby ==
    /\ InvokeIdle /\ StoreIdle /\ now = 0 /\ CallIdle /\ PlayIdle
    /\ GamesInit(<<>>)

NextLobby ==
    \/ dnd_new
    \/ \E user \in Users : dnd_join(user)
    \/ dnd_start
    \/ StartGameActivate
    \/ StartGameAdvance
    \/ StartGameIntro
    \/ dnd_end

SpecLobby == InitLobby /\ [][NextLobby]_vars

(***************************************************************************)
(* The lobby commands with the clock and the idle-turn monitor beside      *)
(* them: a chat from /dnd_new to /dnd_end under the periodic sweep.        *)
(***************************************************************************)
InitSweep == InitLobby

NextSweep ==
    \/ dnd_new
    \/ \E user \in 1..MinPlayers : dnd_join(user)
    \/ dnd_start
    \/ StartGameActivate
    \/ StartGameAdvance
    \/ StartGameIntro
    \/ dnd_end
    \/ Tick
    \/ TimerStep

SpecSweep == InitSweep /\ [][NextSweep]_vars

(***************************************************************************)
(* tools.py apply_damage one transaction at a time, for the tool calls of  *)
(* one AI message, which agent.py's ToolNode runs side by side:            *)
(* get_game_by_id, then update_player_hp, then add_event.                  *)
(***************************************************************************)
Worker(player_name, amount) ==
    [pc |-> "get_game_by_id", name |-> player_name, amount |-> amount,
     game |-> NoGame, result |-> <<>>]

WorkerTarget(w) == FindTarget(workers[w].game.players, workers[w].name, 1)

ApplyDamageRead(w) ==
    /\ workers[w].pc = "get_game_by_id"
    /\ LET game == LoadGame
           t == FindTarget(game.players, workers[w].name, 1)
       IN workers' = [workers EXCEPT ![w] =
            IF game.status = "none"
            THEN [@ EXCEPT !.pc = "returned", !.result = <<"Error: game not found.">>]
            ELSE IF t = 0
            THEN [@ EXCEPT !.pc = "returned", !.game = game,
                           !.result = NoPlayerNamed(game, workers[w].name)]
            ELSE [@ EXCEPT !.pc = "update_player_hp", !.game = game]]
    /\ UNCHANGED <<storeVars, now, games, other_game, invokeVars, calls, lastCall, playVars, zoneVars,
                   ownedVars>>

ApplyDamageWrite(w) ==
    /\ workers[w].pc = "update_player_hp"
    /\ LET target == workers[w].game.players[WorkerTarget(w)]
           new_hp == NewHp(target, workers[w].amount)
       IN players' = update_player_hp(players, WorkerTarget(w), new_hp)
    /\ workers' = [workers EXCEPT ![w].pc = "add_event"]
    /\ UNCHANGED <<status, current, turn, updated_at, events, story_summary, now, games, other_game,
                   invokeVars, calls, lastCall, playVars, zoneVars, ownedVars>>

ApplyDamageLog(w) ==
    /\ workers[w].pc = "add_event"
    /\ LET target == workers[w].game.players[WorkerTarget(w)]
           new_hp == NewHp(target, workers[w].amount)
           event_content == DamageContent(target, workers[w].amount, new_hp)
       IN /\ events' = Append(events, Event("system", workers[w].game.turn_number, 0,
                                            event_content))
          /\ workers' = [workers EXCEPT ![w].pc = "returned",
                                        ![w].result = event_content]
    /\ UNCHANGED <<status, players, current, turn, updated_at, story_summary, now, games, other_game,
                   invokeVars, calls, lastCall, playVars, zoneVars, ownedVars>>

\* a party of two at full HP and one AI message with two apply_damage calls
InitOverlap ==
    /\ InvokeIdle /\ PlayIdle /\ now = 0
    /\ calls = 0 /\ lastCall = NoCall /\ TablesEmpty
    /\ status = "active" /\ current = 1 /\ turn = 1 /\ updated_at = 0
    /\ events = <<>> /\ story_summary = 0
    /\ players = <<Player(1, 1, "Ara", FALSE, MaxHP, MaxHP),
                   Player(2, 2, "Bryn", FALSE, MaxHP, MaxHP)>>
    /\ \E n1, n2 \in ToolArgNames, a1, a2 \in Amounts :
         workers = <<Worker(n1, a1), Worker(n2, a2)>>
    /\ GamesInit(<<>>)

NextOverlap ==
    \E w \in 1..2 : ApplyDamageRead(w) \/ ApplyDamageWrite(w) \/ ApplyDamageLog(w)

SpecOverlap == InitOverlap /\ [][NextOverlap]_vars

(***************************************************************************)
(* Rows of every owned table being added to a started game, and /dnd_end.  *)
(***************************************************************************)
RowsOf(table, game_id) == {r \in table : r.game_id = game_id}

\* the rows a game of another chat owns
OtherSession ==
    /\ zones = {[id |-> 1, game_id |-> OtherGame, name |-> "Hall"],
                [id |-> 2, game_id |-> OtherGame, name |-> "Door"]}
    /\ adjacencies = {[zone_a_id |-> 1, zone_b_id |-> 2]}
    /\ zone_entities = {[zone_id |-> 1, game_id |-> OtherGame, name |-> "Ara"]}
    /\ dm_notes = {[id |-> 1, game_id |-> OtherGame]}
    /\ campaign_sections = {[id |-> 1, game_id |-> OtherGame, section_order |-> 0]}
    /\ inventory_items = {[id |-> 1, player_id |-> OtherPlayerId, game_id |-> OtherGame,
                            item_name |-> "Rope", quantity |-> 1]}
    /\ spell_slots = {[id |-> 1, player_id |-> OtherPlayerId]}

AddDmNote ==
    /\ status # "none" /\ Cardinality(RowsOf(dm_notes, ThisGame)) < MaxRows
    /\ add_dm_note(ThisGame)
    /\ calls' = calls + 1 /\ lastCall' = [op |-> "add_dm_note"]
    /\ UNCHANGED <<storeVars, now, games, other_game, invokeVars, playVars, workers, zoneVars,
                   campaign_sections, inventory_items, spell_slots>>

StoreCampaignSections ==
    /\ status # "none" /\ RowsOf(campaign_sections, ThisGame) = {}
    /\ \E sections \in 1..MaxSections : store_campaign_sections(ThisGame, sections)
    /\ calls' = calls + 1 /\ lastCall' = [op |-> "store_campaign_sections"]
    /\ UNCHANGED <<storeVars, now, games, other_game, invokeVars, playVars, workers, zoneVars,
                   dm_notes, inventory_items, spell_slots>>

AddInventoryItem ==
    /\ status # "none" /\ Cardinality(RowsOf(inventory_items, ThisGame)) < MaxRows
    /\ \E player_id \in PlayerIds : add_inventory_item(player_id, ThisGame, "Rope", 1)
    /\ calls' = calls + 1 /\ lastCall' = [op |-> "add_inventory_item"]
    /\ UNCHANGED <<storeVars, now, games, other_game, invokeVars, playVars, workers, zoneVars,
                   dm_notes, campaign_sections, spell_slots>>

CreateSpellSlots ==
    /\ status # "none"
    /\ \E player_id \in PlayerIds :
         /\ \A r \in spell_slots : r.player_id # player_id
         /\ Cardinality({r \in spell_slots : r.player_id \in PlayerIds}) < MaxRows
         /\ create_spell_slots(player_id)
    /\ calls' = calls + 1 /\ lastCall' = [op |-> "create_spell_slots"]
    /\ UNCHANGED <<storeVars, now, games, other_game, invokeVars, playVars, workers, zoneVars,
                   dm_notes, campaign_sections, inventory_items>>

SceneRows ==
    /\ status # "none"
    /\ \/ /\ RowsOf(zones, ThisGame) = {}
          /\ create_zone(ThisGame, "Hall")
          /\ UNCHANGED <<adjacencies, zone_entities>>
       \/ /\ Cardinality(RowsOf(zones, ThisGame)) = 1
          /\ create_zone(ThisGame, "Door")
          /\ UNCHANGED <<adjacencies, zone_entities>>
       \/ /\ \E a, b \in ZoneIdsOf(ThisGame) :
               a # b /\ ~AdjacencyTaken(a, b) /\ add_zone_adjacency(a, b)
          /\ UNCHANGED <<zones, zone_entities>>
       \/ /\ RowsOf(zone_entities, ThisGame) = {}
          /\ \E zone_id \in ZoneIdsOf(ThisGame) :
               place_entity_in_zone(zone_id, ThisGame, "Ara")
          /\ UNCHANGED <<zones, adjacencies>>
    /\ calls' = calls + 1 /\ lastCall' = [op |-> "zone_tools"]
    /\ UNCHANGED <<storeVars, now, games, other_game, invokeVars, playVars, workers, ownedVars>>

InitDelete ==
    /\ InvokeIdle /\ PlayStart /\ patience = 0
    /\ calls = 0 /\ lastCall = NoCall /\ workers = <<>>
    /\ OtherSession
    /\ \E flags \in Parties : StartedGame(flags)
    /\ GamesInit(<<GameRow(OtherGame, OtherChat)>>)

NextDelete ==
    \/ AddDmNote
    \/ StoreCampaignSections
    \/ AddInventoryItem
    \/ CreateSpellSlots
    \/ SceneRows
    \/ dnd_end

SpecDelete == InitDelete /\ [][NextDelete]_vars

(***************************************************************************)
(* database.py zone queries, and the zone functions called one after the   *)
(* other on the game of this chat.                                         *)
(***************************************************************************)
ZoneNames == {"Hall", "hall", "Door", "Yard"}
ToolZoneNames == ZoneNames \cup {"Cave"}
EntityNames == {"Ara", "Gob"}

ZoneCall(op, args, result) == [op |-> op, args |-> args, result |-> result]

\* get_zones(game_id): the names, ordered by id
RECURSIVE NamesById(_)
NamesById(zs) ==
    IF zs = {} THEN <<>>
    ELSE LET last == CHOOSE z \in zs : \A y \in zs : y.id <= z.id
         IN Append(NamesById(zs \ {last}), last.name)

get_zones(game_id) == NamesById(RowsOf(zones, game_id))

\* the rows get_zone_by_name can return: the select has no ORDER BY and the
\* loop returns the first row whose lower-cased name matches
ZoneMatches(game_id, name) ==
    {z \in RowsOf(zones, game_id) : Lower(z.name) = Lower(name)}

ZoneById(zone_id) == CHOOSE z \in zones : z.id = zone_id

\* get_adjacent_zones(zone_id): the ids of the existing neighbours
get_adjacent_zones(zone_id) ==
    {z.id : z \in {r \in zones :
        \E a \in adjacencies :
            \/ a.zone_a_id = zone_id /\ a.zone_b_id = r.id
            \/ a.zone_b_id = zone_id /\ a.zone_a_id = r.id}}

\* the name_to_id dicts get_zone_distance can build: the rows come in no
\* stated order and a later row replaces an earlier one under the same key
NameToIds(game_id) ==
    LET keys == {Lower(z.name) : z \in RowsOf(zones, game_id)}
    IN {f \in [keys -> ZoneIdsOf(game_id)] :
          \A k \in keys : \E z \in RowsOf(zones, game_id) : Lower(z.name) = k /\ z.id = f[k]}

AdjMap(all_zone_ids) ==
    [zid \in all_zone_ids |->
        {other \in all_zone_ids :
            \E a \in adjacencies :
                \/ a.zone_a_id = zid /\ a.zone_b_id = other
                \/ a.zone_b_id = zid /\ a.zone_a_id = other}]

\* the breadth-first search, one distance at a time; <<>> for None
RECURSIVE Bfs(_, _, _, _, _)
Bfs(adj_map, queue, visited, end_id, dist) ==
    IF queue = {} THEN <<>>
    ELSE LET neighbors == UNION {adj_map[current_zone] : current_zone \in queue}
         IN IF end_id \in neighbors THEN <<dist + 1>>
            ELSE Bfs(adj_map, neighbors \ visited, visited \cup neighbors, end_id, dist + 1)

get_zone_distance(name_to_id, zone_a_name, zone_b_name) ==
    IF Lower(zone_a_name) \notin DOMAIN name_to_id
       \/ Lower(zone_b_name) \notin DOMAIN name_to_id
    THEN <<>>
    ELSE LET start_id == name_to_id[Lower(zone_a_name)]
             end_id == name_to_id[Lower(zone_b_name)]
             all_zone_ids == {name_to_id[k] : k \in DOMAIN name_to_id}
         IN IF start_id = end_id THEN <<0>>
            ELSE Bfs(AdjMap(all_zone_ids), {start_id}, {start_id}, end_id, 0)

\* get_entity_zone(game_id, name): scalar_one_or_none on the placements
EntityRows(game_id, name) ==
    {e \in zone_entities : e.game_id = game_id /\ e.name = name}

MultipleResultsFound(game_id, name) == Cardinality(EntityRows(game_id, name)) > 1

\* <<>> for None, else the id of the zone
get_entity_zone(game_id, name) ==
    IF EntityRows(game_id, name) = {} THEN <<>>
    ELSE LET entity_orm == CHOOSE e \in EntityRows(game_id, name) : TRUE
         IN IF \E z \in zones : z.id = entity_orm.zone_id
            THEN <<entity_orm.zone_id>> ELSE <<>>

GraphRest == <<storeVars, now, games, other_game, invokeVars, calls, playVars, workers, ownedVars>>

CreateZone ==
    /\ Cardinality(RowsOf(zones, ThisGame)) < MaxZones
    /\ NextId(zones) <= MaxZoneId
    /\ \E name \in ZoneNames :
         IF ZoneNameTaken(ThisGame, name)
         THEN /\ lastCall' = ZoneCall("create_zone", <<name>>, <<"IntegrityError">>)
              /\ UNCHANGED zones
         ELSE /\ create_zone(ThisGame, name)
              /\ lastCall' = ZoneCall("create_zone", <<name>>, <<"ok">>)
    /\ UNCHANGED <<adjacencies, zone_entities, GraphRest>>

AddZoneAdjacency ==
    /\ \E zone_a_id, zone_b_id \in ZoneIdsOf(ThisGame) :
         IF AdjacencyTaken(zone_a_id, zone_b_id)
         THEN /\ lastCall' = ZoneCall("add_zone_adjacency", <<zone_a_id, zone_b_id>>,
                                      <<"IntegrityError">>)
              /\ UNCHANGED adjacencies
         ELSE /\ add_zone_adjacency(zone_a_id, zone_b_id)
              /\ lastCall' = ZoneCall("add_zone_adjacency", <<zone_a_id, zone_b_id>>,
                                      <<"ok">>)
    /\ UNCHANGED <<zones, zone_entities, GraphRest>>

DeleteZone ==
    /\ \E zone_id \in ZoneIdsOf(ThisGame) :
         /\ delete_zone(zone_id)
         /\ lastCall' = ZoneCall("delete_zone", <<zone_id>>, <<"ok">>)
    /\ UNCHANGED GraphRest

GetZoneDistance ==
    /\ \E zone_a_name, zone_b_name \in ToolZoneNames, name_to_id \in NameToIds(ThisGame) :
         lastCall' = ZoneCall("get_zone_distance", <<zone_a_name, zone_b_name>>,
                              get_zone_distance(name_to_id, zone_a_name, zone_b_name))
    /\ UNCHANGED <<zoneVars, GraphRest>>

InitGraph ==
    /\ InvokeIdle /\ PlayStart /\ patience = 0
    /\ calls = 0 /\ lastCall = NoCall /\ workers = <<>>
    /\ OtherSession
    /\ StartedGame(<<FALSE, FALSE>>)
    /\ GamesInit(<<GameRow(OtherGame, OtherChat)>>)

NextGraph ==
    \/ CreateZone
    \/ AddZoneAdjacency
    \/ DeleteZone
    \/ GetZoneDistance

SpecGraph == InitGraph /\ [][NextGraph]_vars

(***************************************************************************)
(* zone_tools.py: the scene tools of the game of this chat, called one     *)
(* after the other; setup_scene one committed transaction at a time.       *)
(***************************************************************************)
NoName == "KeyError"
SceneZoneNames == {"Hall", "hall", "Door"}
SceneConnections == {<<"Hall", "Door">>, <<"Door", "Hall">>, <<"Hall", "Cave">>}
SceneEntities == {[name |-> n, zone |-> z] : n \in EntityNames, z \in {"Hall", "Cave"}}
SceneToolZones == SceneZoneNames \cup {"Cave"}

SeqsUpTo(S, n) == UNION {[1..k -> S] : k \in 0..n}

ZoneResult(kind, from, to, warning) ==
    [kind |-> kind, from |-> from, to |-> to, warning |-> warning]

NotFound_NoListing == [kind |-> "not_found", available |-> <<>>]

\* "Zone '...' not found. Available zones: ..."
NotFound == [kind |-> "not_found", available |-> get_zones(ThisGame)]

SceneRest == <<storeVars, now, games, other_game, invokeVars, calls, playVars, ownedVars>>

place_entity(entity_name, zone_name) ==
    /\ workers = <<>>
    /\ IF ZoneMatches(ThisGame, zone_name) = {}
       THEN /\ lastCall' = ZoneCall("place_entity", <<entity_name, zone_name>>, NotFound)
            /\ UNCHANGED zone_entities
       ELSE \E zone \in ZoneMatches(ThisGame, zone_name) :
            /\ place_entity_in_zone(zone.id, ThisGame, entity_name)
            /\ lastCall' = ZoneCall("place_entity", <<entity_name, zone_name>>,
                                    ZoneResult("placed", 0, zone.id, <<>>))
    /\ UNCHANGED <<zones, adjacencies, workers, SceneRest>>

\* the warning of move_entity: <<>> for none, <<"hops", dist>> or <<"not_connected">>
MoveWarning(current_zone, dest_zone, name_to_id) ==
    IF dest_zone.id \in get_adjacent_zones(current_zone.id) THEN <<>>
    ELSE LET dist == get_zone_distance(name_to_id, current_zone.name, dest_zone.name)
         IN IF dist # <<>> THEN <<"hops", dist[1]>> ELSE <<"not_connected">>

move_entity(entity_name, zone_name) ==
    /\ workers = <<>>
    /\ IF ZoneMatches(ThisGame, zone_name) = {}
       THEN /\ lastCall' = ZoneCall("move_entity", <<entity_name, zone_name>>, NotFound)
            /\ UNCHANGED zone_entities
       ELSE \E dest_zone \in ZoneMatches(ThisGame, zone_name) :
            LET current_zone == get_entity_zone(ThisGame, entity_name)
            IN IF MultipleResultsFound(ThisGame, entity_name)
               THEN /\ lastCall' = ZoneCall("move_entity", <<entity_name, zone_name>>,
                                            [kind |-> "MultipleResultsFound"])
                    /\ UNCHANGED zone_entities
               ELSE IF current_zone = <<>>
               THEN /\ place_entity_in_zone(dest_zone.id, ThisGame, entity_name)
                    /\ lastCall' = ZoneCall("move_entity", <<entity_name, zone_name>>,
                                            ZoneResult("placed", 0, dest_zone.id, <<>>))
               ELSE IF current_zone[1] = dest_zone.id
               THEN /\ lastCall' = ZoneCall("move_entity", <<entity_name, zone_name>>,
                             ZoneResult("already", dest_zone.id, dest_zone.id, <<>>))
                    /\ UNCHANGED zone_entities
               ELSE \E name_to_id \in NameToIds(ThisGame) :
                    /\ place_entity_in_zone(dest_zone.id, ThisGame, entity_name)
                    /\ lastCall' = ZoneCall("move_entity", <<entity_name, zone_name>>,
                           ZoneResult("moved", current_zone[1], dest_zone.id,
                               MoveWarning(ZoneById(current_zone[1]), dest_zone, name_to_id)))
    /\ UNCHANGED <<zones, adjacencies, workers, SceneRest>>

remove_entity(entity_name) ==
    /\ workers = <<>>
    /\ LET current_zone == get_entity_zone(ThisGame, entity_name)
       IN IF MultipleResultsFound(ThisGame, entity_name)
          THEN /\ lastCall' = ZoneCall("remove_entity", <<entity_name>>,
                                       [kind |-> "MultipleResultsFound"])
               /\ UNCHANGED zone_entities
          ELSE IF current_zone = <<>>
          THEN /\ lastCall' = ZoneCall("remove_entity", <<entity_name>>,
                                       ZoneResult("not_in_zone", 0, 0, <<>>))
               /\ UNCHANGED zone_entities
          ELSE /\ remove_entity_from_zones(ThisGame, entity_name)
               /\ lastCall' = ZoneCall("remove_entity", <<entity_name>>,
                                       ZoneResult("removed", current_zone[1], 0, <<>>))
    /\ UNCHANGED <<zones, adjacencies, workers, SceneRest>>

clear_scene ==
    /\ workers = <<>>
    /\ clear_zones(ThisGame)
    /\ lastCall' = ZoneCall("clear_scene", <<>>, [kind |-> "cleared"])
    /\ UNCHANGED <<workers, SceneRest>>

\* delete_zone on a zone of the game (database.py; no tool calls it)
SceneDeleteZone ==
    /\ workers = <<>>
    /\ \E zone_id \in ZoneIdsOf(ThisGame) :
         /\ delete_zone(zone_id)
         /\ lastCall' = ZoneCall("delete_zone", <<zone_id>>, [kind |-> "deleted"])
    /\ UNCHANGED <<workers, SceneRest>>

\* the call in progress: the loop it is in, what is left of the argument
\* list of that loop, and created_zones.  The three argument lists are
\* independent inputs; each is drawn when its loop starts to read it.
Scene(pc, items, created_zones) ==
    [pc |-> pc, items |-> items, created_zones |-> created_zones]

SceneRaised(error) ==
    /\ workers' = <<>>
    /\ lastCall' = ZoneCall("setup_scene", <<>>, [kind |-> error])

\* the call and its first transaction, clear_zones(game_id)
SetupSceneClear ==
    /\ workers = <<>>
    /\ \E zs \in SeqsUpTo(SceneZoneNames \cup {NoName}, MaxSceneZones) :
         workers' = <<Scene("zones", zs, <<>>)>>
    /\ clear_zones(ThisGame)
    /\ lastCall' = ZoneCall("setup_scene", <<>>, [kind |-> "running"])
    /\ UNCHANGED SceneRest

\* for z in zones: create_zone(game_id, z["name"], ...)
SetupSceneZone ==
    /\ workers # <<>> /\ workers[1].pc = "zones" /\ workers[1].items # <<>>
    /\ LET name == Head(workers[1].items)
       IN IF name = NoName
          THEN SceneRaised("KeyError") /\ UNCHANGED zones
          ELSE IF ZoneNameTaken(ThisGame, name)
          THEN SceneRaised("IntegrityError") /\ UNCHANGED zones
          ELSE /\ create_zone(ThisGame, name)
               /\ workers' = <<[workers[1] EXCEPT
                     !.items = Tail(@),
                     !.created_zones =
                         [k \in DOMAIN @ \cup {Lower(name)} |->
                             IF k = Lower(name) THEN NextId(zones) ELSE @[k]]]>>
               /\ UNCHANGED lastCall
    /\ UNCHANGED <<adjacencies, zone_entities, SceneRest>>

\* the zones loop is over: for pair in connections
SetupSceneConnections ==
    /\ workers # <<>> /\ workers[1].pc = "zones" /\ workers[1].items = <<>>
    /\ \E connections \in SeqsUpTo(SceneConnections, MaxSceneConnections) :
         workers' = <<Scene("connections", connections, workers[1].created_zones)>>
    /\ UNCHANGED <<zoneVars, lastCall, SceneRest>>

\* add_zone_adjacency(za.id, zb.id) when both names are known
SetupSceneConnection ==
    /\ workers # <<>> /\ workers[1].pc = "connections" /\ workers[1].items # <<>>
    /\ LET pair == Head(workers[1].items)
           created_zones == workers[1].created_zones
           known == /\ Lower(pair[1]) \in DOMAIN created_zones
                    /\ Lower(pair[2]) \in DOMAIN created_zones
       IN IF known /\ AdjacencyTaken(created_zones[Lower(pair[1])],
                                     created_zones[Lower(pair[2])])
          THEN SceneRaised("IntegrityError") /\ UNCHANGED adjacencies
          ELSE /\ IF known
                  THEN add_zone_adjacency(created_zones[Lower(pair[1])],
                                          created_zones[Lower(pair[2])])
                  ELSE UNCHANGED adjacencies
               /\ workers' = <<[workers[1] EXCEPT !.items = Tail(@)]>>
               /\ UNCHANGED lastCall
    /\ UNCHANGED <<zones, zone_entities, SceneRest>>

\* the connections loop is over: for ent in entities
SetupSceneEntities ==
    /\ workers # <<>> /\ workers[1].pc = "connections" /\ workers[1].items = <<>>
    /\ \E entities \in SeqsUpTo(SceneEntities, MaxSceneEntities) :
         workers' = <<Scene("entities", entities, workers[1].created_zones)>>
    /\ UNCHANGED <<zoneVars, lastCall, SceneRest>>

\* place_entity_in_zone when the zone is known
SetupSceneEntity ==
    /\ workers # <<>> /\ workers[1].pc = "entities" /\ workers[1].items # <<>>
    /\ LET ent == Head(workers[1].items)
           created_zones == workers[1].created_zones
       IN /\ IF Lower(ent.zone) \in DOMAIN created_zones
             THEN place_entity_in_zone(created_zones[Lower(ent.zone)], ThisGame, ent.name)
             ELSE UNCHANGED zone_entities
          /\ workers' = <<[workers[1] EXCEPT !.items = Tail(@)]>>
    /\ UNCHANGED <<zones, adjacencies, lastCall, SceneRest>>

\* return "Scene created: ..."
SetupSceneReturn ==
    /\ workers # <<>> /\ workers[1].pc = "entities" /\ workers[1].items = <<>>
    /\ workers' = <<>>
    /\ lastCall' = ZoneCall("setup_scene", <<>>, [kind |-> "created"])
    /\ UNCHANGED <<zoneVars, SceneRest>>

InitScene ==
    /\ InvokeIdle /\ PlayStart /\ patience = 0
    /\ calls = 0 /\ lastCall = NoCall /\ workers = <<>>
    /\ OtherSession
    /\ StartedGame(<<FALSE, FALSE>>)
    /\ GamesInit(<<GameRow(OtherGame, OtherChat)>>)

NextScene ==
    \/ SetupSceneClear
    \/ SetupSceneZone
    \/ SetupSceneConnections
    \/ SetupSceneConnection
    \/ SetupSceneEntities
    \/ SetupSceneEntity
    \/ SetupSceneReturn
    \/ \E entity_name \in EntityNames, zone_name \in SceneToolZones :
         place_entity(entity_name, zone_name)
    \/ \E entity_name \in EntityNames, zone_name \in SceneToolZones :
         move_entity(entity_name, zone_name)
    \/ \E entity_name \in EntityNames : remove_entity(entity_name)
    \/ clear_scene
    \/ SceneDeleteZone

SpecScene == InitScene /\ [][NextScene]_vars

(***************************************************************************)
(* inventory_tools.py add_item and remove_item, and database.py            *)
(* update_inventory_item_quantity, called one after the other.             *)
(***************************************************************************)
ItemNames == {"Rope", "Potion"}
Quantities == (0 - MaxQuantity)..MaxQuantity

\* _find_player(player_name): the id of the player, 0 when there is none
FindPlayerId(player_name) ==
    IF FindTarget(players, player_name, 1) = 0 THEN 0
    ELSE players[FindTarget(players, player_name, 1)].id

InventoryRest == <<storeVars, now, games, other_game, invokeVars, calls, playVars, workers, zoneVars,
                   dm_notes, campaign_sections, spell_slots>>

add_item(player_name, item_name, quantity) ==
    /\ IF FindPlayerId(player_name) = 0
       THEN /\ lastCall' = ZoneCall("add_item", <<player_name, item_name, quantity>>,
                                    [kind |-> "no_player"])
            /\ UNCHANGED inventory_items
       ELSE /\ Cardinality(RowsOf(inventory_items, ThisGame)) < MaxItems
            /\ NextId(inventory_items) <= MaxItemId
            /\ add_inventory_item(FindPlayerId(player_name), ThisGame, item_name, quantity)
            /\ lastCall' = ZoneCall("add_item", <<player_name, item_name, quantity>>,
                                    [kind |-> "added"])
    /\ UNCHANGED InventoryRest

remove_item(player_name, item_name, quantity) ==
    /\ LET player_id == FindPlayerId(player_name)
       IN IF player_id = 0
          THEN /\ lastCall' = ZoneCall("remove_item", <<player_name, item_name, quantity>>,
                                       [kind |-> "no_player"])
               /\ UNCHANGED inventory_items
          ELSE IF Cardinality(ItemRows(player_id, item_name)) > 1
          THEN /\ lastCall' = ZoneCall("remove_item", <<player_name, item_name, quantity>>,
                                       [kind |-> "MultipleResultsFound"])
               /\ UNCHANGED inventory_items
          ELSE IF ItemRows(player_id, item_name) = {}
          THEN /\ lastCall' = ZoneCall("remove_item", <<player_name, item_name, quantity>>,
                                       [kind |-> "not_in_inventory"])
               /\ UNCHANGED inventory_items
          ELSE /\ \A r \in ItemRows(player_id, item_name) :
                    r.quantity - quantity <= MaxQuantity
               /\ remove_inventory_item_by_name(player_id, item_name, quantity)
               /\ lastCall' = ZoneCall("remove_item", <<player_name, item_name, quantity>>,
                                       [kind |-> "removed"])
    /\ UNCHANGED InventoryRest

UpdateInventoryItemQuantity ==
    /\ \E r \in inventory_items, quantity \in Quantities :
         /\ update_inventory_item_quantity(r.id, quantity)
         /\ lastCall' = ZoneCall("update_inventory_item_quantity", <<r.id, quantity>>,
                                 [kind |-> "updated"])
    /\ UNCHANGED InventoryRest

InitInventory ==
    /\ InvokeIdle /\ PlayStart /\ patience = 0
    /\ calls = 0 /\ lastCall = NoCall /\ workers = <<>> /\ TablesEmpty
    /\ StartedGame(<<FALSE, FALSE>>)
    /\ GamesInit(<<>>)

NextInventory ==
    \/ \E player_name \in ToolArgNames, item_name \in ItemNames, quantity \in Quantities :
         add_item(player_name, item_name, quantity)
    \/ \E player_name \in ToolArgNames, item_name \in ItemNames, quantity \in Quantities :
         remove_item(player_name, item_name, quantity)
    \/ UpdateInventoryItemQuantity

SpecInventory == InitInventory /\ [][NextInventory]_vars

(***************************************************************************)
(* tools.py _parse_and_roll on notations given as sequences of characters. *)
(***************************************************************************)
Digits == {"0", "1", "2", "3", "4", "5", "6", "7", "8", "9"}
DigitValue ==
    ("0" :> 0) @@ ("1" :> 1) @@ ("2" :> 2) @@ ("3" :> 3) @@ ("4" :> 4) @@
    ("5" :> 5) @@ ("6" :> 6) @@ ("7" :> 7) @@ ("8" :> 8) @@ ("9" :> 9)
Whitespace == {" ", "\t"}

\* str.strip(): whitespace off both ends
RECURSIVE Strip(_)
Strip(s) ==
    IF s = <<>> THEN s
    ELSE IF Head(s) \in Whitespace THEN Strip(Tail(s))
    ELSE IF s[Len(s)] \in Whitespace THEN Strip(SubSeq(s, 1, Len(s) - 1))
    ELSE s

\* str.lower() on the characters the notations use
LowerChar(c) == IF c = "D" THEN "d" ELSE IF c = "X" THEN "x" ELSE c

\* .lower().replace(" ", "")
RECURSIVE LowerNoSpaces(_)
LowerNoSpaces(s) ==
    IF s = <<>> THEN <<>>
    ELSE IF Head(s) = " " THEN LowerNoSpaces(Tail(s))
    ELSE <<LowerChar(Head(s))>> \o LowerNoSpaces(Tail(s))

\* the index after the run of digits that starts at i: \d+ is greedy
RECURSIVE DigitsEnd(_, _)
DigitsEnd(s, i) ==
    IF i <= Len(s) /\ s[i] \in Digits THEN DigitsEnd(s, i + 1) ELSE i

\* int() of the digits s[a..b-1]
RECURSIVE ToInt(_, _, _)
ToInt(s, a, b) ==
    IF b <= a THEN 0 ELSE ToInt(s, a, b - 1) * 10 + DigitValue[s[b - 1]]

\* DICE_PATTERN.match: <<>> for no match, else <<group 1, group 2, modifier>>
DicePatternMatch(s) ==
    LET e1 == DigitsEnd(s, 1)
        e2 == DigitsEnd(s, e1 + 1)
        e3 == DigitsEnd(s, e2 + 1)
    IN IF e1 = 1 \/ e1 > Len(s) \/ s[e1] # "d" \/ e2 = e1 + 1 THEN <<>>
       ELSE IF e2 = Len(s) + 1 THEN <<ToInt(s, 1, e1), ToInt(s, e1 + 1, e2), 0>>
       ELSE IF s[e2] \notin {"+", "-"} \/ e3 = e2 + 1 \/ e3 # Len(s) + 1 THEN <<>>
       ELSE <<ToInt(s, 1, e1), ToInt(s, e1 + 1, e2),
              IF s[e2] = "-" THEN 0 - ToInt(s, e2 + 1, e3) ELSE ToInt(s, e2 + 1, e3)>>

DiceInRange(num_dice) == ~(num_dice < 1 \/ num_dice > DiceLimit)

SidesInRange_AllowsOne(num_sides) == ~(num_sides < 1 \/ num_sides > SidesLimit)

SidesInRange(num_sides) == ~(num_sides < MinSides \/ num_sides > SidesLimit)

RECURSIVE Sum(_)
Sum(rolls) == IF rolls = <<>> THEN 0 ELSE Head(rolls) + Sum(Tail(rolls))

\* the outcomes of [random.randint(1, num_sides) for _ in range(num_dice)]
\* the model follows: all of them for few small dice, else all dice low or
\* all dice high
RollOutcomes(num_dice, num_sides) ==
    IF num_dice <= MaxRolledDice /\ num_sides <= MaxRolledSides
    THEN [1..num_dice -> 1..num_sides]
    ELSE {[i \in 1..num_dice |-> 1], [i \in 1..num_dice |-> num_sides]}

ValueError == [raised |-> TRUE, rolls |-> <<>>, modifier |-> 0, total |-> 0]

\* the results _parse_and_roll(notation) can return
_parse_and_roll(notation) ==
    LET match == DicePatternMatch(LowerNoSpaces(Strip(notation)))
    IN IF match = <<>> THEN {ValueError}
       ELSE IF ~DiceInRange(match[1]) THEN {ValueError}
       ELSE IF ~SidesInRange(match[2]) THEN {ValueError}
       ELSE {[raised |-> FALSE, rolls |-> rolls, modifier |-> match[3],
              total |-> Sum(rolls) + match[3]] : rolls \in RollOutcomes(match[1], match[2])}

\* the notations the model tries: padding, count, separator, sides, modifier, tail
Pads == {<<>>, <<" ">>, <<"\t">>}
CountTexts == {<<"0">>, <<"1">>, <<"2">>, <<"0", "2">>, <<"1", "0", "0">>,
               <<"1", "0", "1">>, <<>>, <<"x">>}
Separators == {<<"d">>, <<"D">>, <<" ", "d", " ">>, <<"x">>, <<>>}
SidesTexts == {<<"1">>, <<"2">>, <<"3">>, <<"1", "0", "0">>, <<"1", "0", "1">>,
               <<>>, <<"2", "x">>}
ModifierTexts == {<<>>, <<"+", "1">>, <<"-", "2">>, <<" ", "+", " ", "1">>, <<"+">>,
                  <<"+", "-", "1">>, <<"1">>}
Tails == {<<>>, <<" ">>, <<"!">>}
Notations ==
    {p \o n \o d \o k \o m \o t :
        p \in Pads, n \in CountTexts, d \in Separators, k \in SidesTexts,
        m \in ModifierTexts, t \in Tails}

DiceRest == <<storeVars, now, invokeVars, calls, playVars, tableVars>>

\* the call of _parse_and_roll on the notation drawn at the start
ParseAndRoll ==
    /\ lastCall.op = "notation"
    /\ \E result \in _parse_and_roll(lastCall.notation) :
         lastCall' = [op |-> "_parse_and_roll", notation |-> lastCall.notation,
                      result |-> result]
    /\ UNCHANGED DiceRest

InitDice ==
    /\ InvokeIdle /\ StoreIdle /\ PlayIdle /\ now = 0
    /\ calls = 0 /\ workers = <<>> /\ TablesEmpty
    /\ \E notation \in Notations : lastCall = [op |-> "notation", notation |-> notation]
    /\ GamesInit(<<>>)

NextDice == ParseAndRoll

SpecDice == InitDice /\ [][NextDice]_vars

(***************************************************************************)
(* database.py get_recent_events on the events of this chat's game, which  *)
(* the model keeps in the order of their ids.                              *)
(***************************************************************************)
Reverse(s) == [i \in 1..Len(s) |-> s[Len(s) + 1 - i]]

Take(s, n) == SubSeq(s, 1, Min(n, Len(s)))

\* order_by(id.desc()).limit(limit), returned as selected
get_recent_events_NoReverse(log, limit) == Take(Reverse(log), limit)

\* order_by(id.desc()).limit(limit), then events.reverse()
get_recent_events(log, limit) == Reverse(Take(Reverse(log), limit))

(***************************************************************************)
(* SpecFinalize: the /dnd_action conversation with finalize_action taken   *)
(* one committed call at a time (it runs in a worker thread).              *)
(***************************************************************************)
FinalizeRest == <<now, tableVars, invokeVars, callVars, timerVars, patience, lastPrompt>>

\* add_event(RESOLUTION) with the caller's Game
FinalizeAddEvent ==
    /\ hpc = "finalize"
    /\ events' = TextEvent(events, "resolution", hgame.turn_number, 0)
    /\ hpc' = "summarize_events"
    /\ UNCHANGED <<status, players, current, turn, updated_at, story_summary>>
    /\ UNCHANGED <<hgame, hplayer, huser, hexch, hout, conv, chat_data>>
    /\ UNCHANGED FinalizeRest

\* a failure of summarize_events ends finalize_action
FinalizeSummarize_Propagates ==
    /\ hpc = "summarize_events"
    /\ \/ /\ story_summary' = hgame.turn_number
          /\ hout' = "summarized" /\ hpc' = "advance_turn"
          /\ UNCHANGED <<hgame, hplayer, huser, hexch, conv, chat_data>>
       \/ /\ hout' = "finalize_error" /\ EndConversation
          /\ UNCHANGED story_summary
    /\ UNCHANGED <<status, players, current, turn, updated_at, events>>
    /\ UNCHANGED FinalizeRest

\* try: summarize_events(game.id) except Exception: logged only
FinalizeSummarize ==
    /\ hpc = "summarize_events"
    /\ \/ story_summary' = hgame.turn_number /\ hout' = "summarized"
       \/ UNCHANGED story_summary /\ hout' = "summary_failed"
    /\ hpc' = "advance_turn"
    /\ UNCHANGED <<status, players, current, turn, updated_at, events>>
    /\ UNCHANGED <<hgame, hplayer, huser, hexch, conv, chat_data>>
    /\ UNCHANGED FinalizeRest

\* next_player = advance_turn(game) with the caller's Game
FinalizeAdvance ==
    /\ hpc = "advance_turn"
    /\ LET adv == advance_turn(hgame)
       IN IF adv.raised
          THEN /\ hout' = "finalize_error" /\ EndConversation
               /\ UNCHANGED <<current, turn, updated_at>>
          ELSE /\ update_game_current_player(adv.next_player, adv.new_turn)
               /\ hpc' = "narrate_scene" /\ hplayer' = adv.next_player
               /\ UNCHANGED <<hgame, huser, hexch, hout, conv, chat_data>>
    /\ UNCHANGED <<status, players, events, story_summary>>
    /\ UNCHANGED FinalizeRest

\* game = get_game_by_chat(game.chat_id); narrate_scene(game, next_player):
\* _invoke_dm may raise, else the narration event of the reloaded turn
FinalizeNarrate ==
    /\ hpc = "narrate_scene"
    /\ \/ /\ hout' = "finalize_error"
          /\ UNCHANGED events
       \/ /\ get_game_by_chat(ThisChat) # <<>>
          /\ hout' = "finalized"
          /\ events' = TextEvent(events, "narration", LoadGame.turn_number, 0)
    /\ EndConversation
    /\ UNCHANGED <<status, players, current, turn, updated_at, story_summary>>
    /\ UNCHANGED FinalizeRest

InitFinalize ==
    /\ InvokeIdle /\ CallIdle /\ PlayStart
    /\ patience = MaxPatience
    /\ \E flags \in Parties : StartedGame(flags)
    /\ GamesInit(<<>>)

NextFinalize ==
    \/ \E user \in ChatUsers, with_args \in BOOLEAN : dnd_action_start(user, with_args)
    \/ \E user \in ChatUsers : dnd_action_receive(user)
    \/ HandleActionText
    \/ \E user \in ChatUsers : dnd_action_clarification(user)
    \/ HandleClarification
    \/ \E user \in ChatUsers : dnd_action_cancel(user)
    \/ FinalizeAddEvent
    \/ FinalizeSummarize
    \/ FinalizeAdvance
    \/ FinalizeNarrate
    \/ Tick

SpecFinalize == InitFinalize /\ [][NextFinalize]_vars

(***************************************************************************)
(* game_logic.py _invoke_dm_conversational with the tools of the agent     *)
(* acting on the store: the agent of an invocation calls its tools one     *)
(* after the other (each tool message is appended to the invocation's      *)
(* messages) and ends with an ai message; apply_damage commits as it runs. *)
(* workers keeps the apply_damage calls of the cycle in call order.        *)
(***************************************************************************)
AgentTools == {"roll_dice", "request_clarification"}
AgentTexts == {"", "narration"}

Running == IF ipc = "call" THEN trace1 ELSE trace2

Ran(messages) ==
    /\ trace1' = (IF ipc = "call" THEN messages ELSE trace1)
    /\ trace2' = (IF ipc = "call" THEN trace2 ELSE messages)

\* a tool call that does not write to the store
AgentToolCall ==
    /\ ipc \in {"call", "retry"} /\ Len(Running) < MaxTrace - 1
    /\ \E n \in AgentTools : Ran(Append(Running, ToolMsg(n)))
    /\ UNCHANGED <<ipc, invocations, sent, resp, storeVars, now, tableVars, callVars, playVars>>

\* an apply_damage call
AgentApplyDamage ==
    /\ ipc \in {"call", "retry"} /\ Len(Running) < MaxTrace - 1
    /\ calls < MaxCalls
    /\ \E player_name \in ToolArgNames, amount \in Amounts :
        /\ apply_damage(player_name, amount)
        /\ workers' = Append(workers, [Worker(player_name, amount) EXCEPT !.pc = "returned"])
    /\ Ran(Append(Running, ToolMsg("apply_damage")))
    /\ calls' = calls + 1
    /\ UNCHANGED <<ipc, invocations, sent, resp, status, current, turn, updated_at,
                   story_summary, now, games, other_game, zoneVars, ownedVars, playVars>>

\* agent.invoke returns: the first invocation is accepted or retried, the
\* second is accepted
AgentReturns ==
    /\ ipc \in {"call", "retry"}
    /\ \E c \in AgentTexts :
        LET messages == Append(Running, AiMsg(c))
            tools_used == _extract_tools_used(messages)
            r == _extract_response(messages)
        IN /\ Ran(messages)
           /\ invocations' = invocations + 1
           /\ sent' = Append(sent, IF ipc = "call" THEN BasePrompt ELSE RetryPrompt)
           /\ IF ipc = "call" /\ ~r.clar /\ _needs_dice_retry(tools_used)
              THEN /\ ipc' = "retry"
                   /\ resp' = resp
              ELSE /\ ipc' = "returned"
                   /\ resp' = DMResponse(~r.clar, r.text)
    /\ UNCHANGED <<storeVars, now, tableVars, callVars, playVars>>

\* agent.invoke raises
AgentRaises ==
    /\ ipc \in {"call", "retry"}
    /\ invocations' = invocations + 1
    /\ sent' = Append(sent, IF ipc = "call" THEN BasePrompt ELSE RetryPrompt)
    /\ ipc' = "raised"
    /\ UNCHANGED <<trace1, trace2, resp, storeVars, now, tableVars, callVars, playVars>>

\* the first cycle of a started party of two: hp = max_hp
InitCycle == InitTools

NextCycle == AgentToolCall \/ AgentApplyDamage \/ AgentReturns \/ AgentRaises

SpecCycle == InitCycle /\ [][NextCycle]_vars

(***************************************************************************)
(* The scene tools, add_dm_note and /dnd_end on the game of this chat,     *)
(* with the rows of the game of another chat in the same tables.           *)
(***************************************************************************)
InitFrame == InitScene

NextFrame ==
    \/ SetupSceneClear
    \/ SetupSceneZone
    \/ SetupSceneConnections
    \/ SetupSceneConnection
    \/ SetupSceneEntities
    \/ SetupSceneEntity
    \/ SetupSceneReturn
    \/ clear_scene
    \/ AddDmNote
    \/ dnd_end

SpecFrame == InitFrame /\ [][NextFrame]_vars

(***************************************************************************)
(* Claims about _invoke_dm_conversational (SpecInvoke).                    *)
(***************************************************************************)
InvokeDone == ipc \in {"returned", "raised"}
HasTool(trace, n) == \E i \in 1..Len(trace) : trace[i] = ToolMsg(n)
DamageWithoutDice(trace) == HasTool(trace, "apply_damage") /\ ~HasTool(trace, "roll_dice")
\* an apply_damage call with no roll_dice call before it in the trace
DamageNotPrecededByDice(trace) ==
    \E i \in 1..Len(trace) :
        /\ trace[i] = ToolMsg("apply_damage")
        /\ \A j \in 1..(i - 1) : trace[j] # ToolMsg("roll_dice")
AcceptedFrom(trace) ==
    DMResponse(~HasTool(trace, "request_clarification"),
               _extract_response(trace).text)

HPInRange == \A i \in 1..Len(players) : 0 <= players[i].hp /\ players[i].hp <= players[i].max_hp

\* C6: after each apply_damage call the stored HP of the participant it names
\* is max(0, min(max_hp, previous HP + amount)), the HP of the others is as it
\* was, and every stored HP lies in [0, max_hp].
C6_HPClamped ==
    /\ []HPInRange
    /\ [][LET c == lastCall'
              t == FindTarget(players, c.name, 1)
          IN (c.op = "apply_damage" /\ t # 0) =>
                /\ players'[t].hp =
                       Max(0, Min(players[t].max_hp, players[t].hp + c.amount))
                /\ \A i \in 1..Len(players) : i # t => players'[i] = players[i]
                /\ Len(players') = Len(players)]_vars

\* damage was cut off at 0 and a later healing was cut off at max_hp
C6_Witness ==
    /\ calls >= 2
    /\ \E i, j \in 1..Len(events) :
        /\ i < j
        /\ events[i].content[2] = "takes"
        /\ events[i].content[4] - events[i].content[3] < 0
        /\ events[i].content[5] = 0
        /\ events[j].content[2] = "heals"
        /\ events[j].content[4] + events[j].content[3] > events[j].content[5]
        /\ events[j].content[1] = events[i].content[1]

(***************************************************************************)
(* Claims about advance_turn (SpecTurn).                                   *)
(***************************************************************************)
\* C7: with participants [P1..PN] and no active participant, the k-th call of
\* advance_turn (each on the freshly loaded game) returns and stores the
\* participant at position ((k-1) mod N) + 1 of the join order and stores the
\* turn counter k: the first call selects P1 with turn 1, every later call the
\* cyclic successor with the turn counter one higher.
C7_RoundRobin ==
    (Len(players) > 0 /\ calls > 0) =>
        /\ current = players[((calls - 1) % Len(players)) + 1].id
        /\ turn = calls
        /\ lastCall.returned = current
        /\ ~lastCall.raised

\* [A, B, C]: the fourth call is back at A with turn 4
C7_Witness ==
    /\ Len(players) = 3 /\ calls = 4
    /\ current = players[1].id /\ turn = 4

(***************************************************************************)
(* Claims about the clarification dialog of /dnd_action (SpecDialog).      *)
(***************************************************************************)
\* C3: the clarification dialog terminates at the maximum exchange count: no
\* conversation is waiting for a clarification with an exchange count above
\* the maximum (25), whatever the DM answers.
C3_Original ==
    \A u \in DOMAIN conv :
        conv[u] = "AWAITING_CLARIFICATION" => chat_data.exchange_count <= ForceResolveAt

\* the DM was told it must resolve, asked again, and the dialog is still open
C3_StillAwaiting ==
    /\ lastPrompt = "continue+must_resolve"
    /\ hout = "clarify"
    /\ \E u \in DOMAIN conv : conv[u] = "AWAITING_CLARIFICATION"
    /\ chat_data.exchange_count = ForceResolveAt + 1

(***************************************************************************)
(* Claims about turns in play (SpecPlay).                                  *)
(***************************************************************************)
HumanCycle == hpc \in {"start", "continue", "finalize"}
TakeoverCycle == tpc \in {"gen", "start", "loop"}

\* C4: at most one resolution cycle of the session is in progress: a cycle
\* started through /dnd_action and an idle-turn takeover are never both
\* between their first read and their last write of the session.
C4_Original == ~(HumanCycle /\ TakeoverCycle)

\* C5: when the DM call raises in start_player_action or
\* continue_player_action, the step leaves the event log, the turn counter,
\* the active player and the players' rows as they were.
C5_Original ==
    [][(hpc \in {"start", "continue"} /\ hout' = "error") =>
          /\ events' = events
          /\ turn' = turn /\ current' = current
          /\ players' = players]_vars

\* C9: when finalizing an action submitted through /dnd_action makes an
\* automated player the active one, the flow goes on to play that turn: the
\* handler does not return with nothing set to play it.
C9_Original ==
    [][(hpc = "finalize" /\ hout' = "finalized" /\ IsAi(current')) =>
          (hpc' # "idle" \/ tpc' = "auto")]_vars

\* C10: when the LLM call of generate_ai_action raises during a takeover, the
\* default action is used and the takeover goes on to resolve the turn.
C10_Original ==
    [][(tpc = "gen" /\ tgen' = "raised") =>
          (taction' = "I look around cautiously." /\ tpc' = "start")]_vars

(***************************************************************************)
(* Claims about the lobby and start_game (SpecLobby).                      *)
(***************************************************************************)
\* C8: in every committed state a game whose status is active has an active
\* player, and that player is one of its own players.
C8_Original ==
    status = "active" =>
        /\ current # 0
        /\ \E i \in 1..Len(players) : players[i].id = current

\* C11: a chain of automated turns ends at the first error, and the error is
\* caught and reported to the chat: whenever the monitor's run ends on a
\* raised exception, the last message it sent to the chat is an error message.
TakeoverFailed ==
    tgen' = "raised" \/ tout' \in {"error", "reply_raised", "finalize_error"}

C11_Original ==
    [][(tpc # "idle" /\ tpc' = "idle" /\ TakeoverFailed) => tsent' = "error"]_vars

(***************************************************************************)
(* Claims about overlapping tool calls (SpecOverlap).                      *)
(***************************************************************************)
Clamp(hp, max_hp) == Max(0, Min(max_hp, hp))

\* C12: apply_damage is atomic: when two overlapping calls on the same
\* participant (at full HP before them) have both returned, the stored HP is
\* the one some sequential order of the two calls gives.
C12_Original ==
    (/\ Len(workers) = 2
     /\ \A w \in 1..2 : workers[w].pc = "returned" /\ WorkerTarget(w) # 0
     /\ WorkerTarget(1) = WorkerTarget(2)) =>
        LET p == players[WorkerTarget(1)]
            a1 == workers[1].amount
            a2 == workers[2].amount
        IN p.hp \in {Clamp(Clamp(p.max_hp + a1, p.max_hp) + a2, p.max_hp),
                     Clamp(Clamp(p.max_hp + a2, p.max_hp) + a1, p.max_hp)}

(***************************************************************************)
(* Claims about delete_game (SpecDelete).                                  *)
(***************************************************************************)
OwnsRows ==
    \/ RowsOf(zone_entities, ThisGame) # {} \/ RowsOf(zones, ThisGame) # {}
    \/ RowsOf(dm_notes, ThisGame) # {} \/ RowsOf(campaign_sections, ThisGame) # {}
    \/ RowsOf(inventory_items, ThisGame) # {}
    \/ \E r \in spell_slots : r.player_id \in PlayerIds
    \/ \E a \in adjacencies : {a.zone_a_id, a.zone_b_id} \cap ZoneIdsOf(ThisGame) # {}
    \/ events # <<>> \/ players # <<>>

\* the rows the other game started with are all still there
OtherSessionKept ==
    /\ Cardinality(RowsOf(zones, OtherGame)) = 2 /\ Cardinality(adjacencies) = 1
    /\ RowsOf(zone_entities, OtherGame) # {} /\ RowsOf(dm_notes, OtherGame) # {}
    /\ RowsOf(campaign_sections, OtherGame) # {} /\ RowsOf(inventory_items, OtherGame) # {}
    /\ spell_slots # {}

\* C13: after delete_game for an existing game, no row of any owned table
\* (zone entities, adjacencies, zones, notes, campaign sections, inventory
\* items, spell slots, events, players) belongs to that game any more and
\* get_game_by_chat finds no game; the step removes, for every former zone
\* and player of the game, every row that referred to it.
C13_DeleteCascades ==
    [][(status # "none" /\ status' = "none") =>
        /\ ~OwnsRows'
        /\ LoadGame' = NoGame
        /\ \A a \in adjacencies' : {a.zone_a_id, a.zone_b_id} \cap ZoneIdsOf(ThisGame) = {}
        /\ \A r \in spell_slots' : r.player_id \notin PlayerIds
        /\ \A e \in zone_entities' : e.zone_id \notin ZoneIdsOf(ThisGame)]_vars

\* the game of this chat is gone after a row was added for it to every
\* table (two zones, their adjacency, an entity, a note, sections, an item,
\* spell slots), and the other game's rows are intact
C13_Witness ==
    /\ status = "none" /\ calls = 8 /\ ~OwnsRows /\ OtherSessionKept

(***************************************************************************)
(* Claims about the zone graph functions (SpecGraph).                      *)
(***************************************************************************)
Neighbours(zone_id) ==
    {other \in ZoneIdsOf(ThisGame) :
        \E a \in adjacencies : {a.zone_a_id, a.zone_b_id} = {zone_id, other}}

\* the number of edges of a shortest path of the game's graph, <<>> if none
RECURSIVE Hops(_, _, _, _)
Hops(frontier, seen, target, n) ==
    IF target \in frontier THEN <<n>>
    ELSE LET next == UNION {Neighbours(z) : z \in frontier} \ seen
         IN IF next = {} THEN <<>> ELSE Hops(next, seen \cup next, target, n + 1)

ShortestPath(zone_a_id, zone_b_id) == Hops({zone_a_id}, {zone_a_id}, zone_b_id, 0)

ZoneNamed(name) == CHOOSE z \in RowsOf(zones, ThisGame) : z.name = name

\* C14: for two zone names of the game get_zone_distance returns the number
\* of edges of a shortest path between the two zones (0 for the same zone,
\* 1 for adjacent zones, None exactly when there is no path), None when a
\* name is unknown, and the same result with the arguments swapped.
C14_Original ==
    lastCall.op = "get_zone_distance" =>
        LET zone_a_name == lastCall.args[1]
            zone_b_name == lastCall.args[2]
        IN /\ (ZoneNameTaken(ThisGame, zone_a_name) /\ ZoneNameTaken(ThisGame, zone_b_name))
                => lastCall.result =
                     ShortestPath(ZoneNamed(zone_a_name).id, ZoneNamed(zone_b_name).id)
           /\ (ZoneMatches(ThisGame, zone_a_name) = {} \/ ZoneMatches(ThisGame, zone_b_name) = {})
                => lastCall.result = <<>>
           /\ \A name_to_id \in NameToIds(ThisGame) :
                get_zone_distance(name_to_id, zone_a_name, zone_b_name)
                    = get_zone_distance(name_to_id, zone_b_name, zone_a_name)

\* a distance was asked between two zones whose names differ only in case
C14_Witness ==
    /\ lastCall.op = "get_zone_distance"
    /\ lastCall.args[1] # lastCall.args[2]
    /\ Lower(lastCall.args[1]) = Lower(lastCall.args[2])
    /\ ZoneNameTaken(ThisGame, lastCall.args[1]) /\ ZoneNameTaken(ThisGame, lastCall.args[2])


\* C15: adjoining is idempotent and order-independent: every
\* add_zone_adjacency call on two zones, a repeated or reversed one included,
\* succeeds without error, and afterwards the pair has exactly one edge,
\* stored with the smaller zone id first.
C15_Original ==
    /\ \A a \in adjacencies : a.zone_a_id <= a.zone_b_id
    /\ lastCall.op = "add_zone_adjacency" =>
        /\ lastCall.result = <<"ok">>
        /\ Cardinality({a \in adjacencies :
              {a.zone_a_id, a.zone_b_id} = {lastCall.args[1], lastCall.args[2]}}) = 1

(***************************************************************************)
(* Claims about the scene tools (SpecScene).                               *)
(***************************************************************************)
SceneCallIs(ops, kinds) ==
    /\ lastCall.op \in ops
    /\ lastCall.result.kind \in kinds

\* C16: after any sequence of scene tool calls every entity name has at most
\* one placement in the game, and an entity that was placed or moved is
\* found in the zone of that call only.
C16_OnePlacement ==
    /\ \A e1, e2 \in zone_entities :
         (e1.game_id = e2.game_id /\ e1.name = e2.name) => e1 = e2
    /\ SceneCallIs({"place_entity", "move_entity"}, {"placed", "moved"}) =>
         EntityRows(ThisGame, lastCall.args[1]) =
             {[zone_id |-> lastCall.result.to, game_id |-> ThisGame,
               name |-> lastCall.args[1]]}

\* an entity that was in one zone has been moved to another, with a second
\* entity placed as well
C16_Witness ==
    /\ SceneCallIs({"move_entity"}, {"moved"})
    /\ lastCall.result.from # lastCall.result.to
    /\ get_entity_zone(ThisGame, lastCall.args[1]) = <<lastCall.result.to>>
    /\ Cardinality(RowsOf(zone_entities, ThisGame)) = 2

\* C17: setup_scene replaces the graph atomically: the graph of the game
\* changes in one step only, the one in which the call returns its result,
\* so no state in between (and no state after a failure) shows an empty or
\* partly built graph.
C17_Original ==
    [][((workers # <<>> \/ workers' # <<>>) /\ zoneVars' # zoneVars) =>
         /\ workers' = <<>>
         /\ lastCall'.op = "setup_scene" /\ lastCall'.result.kind = "created"]_vars

\* setup_scene has failed partway and left a partly built graph
C17_Witness ==
    /\ workers = <<>>
    /\ SceneCallIs({"setup_scene"}, {"KeyError", "IntegrityError"})
    /\ RowsOf(zones, ThisGame) # {}

NoDangling ==
    /\ \A a \in adjacencies :
         \E za, zb \in zones :
            za.id = a.zone_a_id /\ zb.id = a.zone_b_id /\ za.game_id = zb.game_id
    /\ \A e \in zone_entities :
         \E z \in zones : z.id = e.zone_id /\ z.game_id = e.game_id

GraphOf(game_id) ==
    <<RowsOf(zones, game_id), RowsOf(zone_entities, game_id),
      {a \in adjacencies : {a.zone_a_id, a.zone_b_id} \cap ZoneIdsOf(game_id) # {}}>>

\* C18: after every spatial operation both endpoints of every adjacency and
\* the zone of every placement are existing zones of the same game, and the
\* rows of the previous scene are all gone once setup_scene has cleared: the
\* graph it returns holds only what this call created.
C18_NoDangling ==
    /\ []NoDangling
    /\ [][(workers = <<>> /\ workers' # <<>>) => GraphOf(ThisGame)' = <<{}, {}, {}>>]_vars

\* a zone has been deleted while another zone of the game still holds a
\* placement
C18_Witness ==
    /\ SceneCallIs({"delete_zone"}, {"deleted"})
    /\ RowsOf(zones, ThisGame) # {}
    /\ RowsOf(zone_entities, ThisGame) # {}

\* C19: move_entity to an existing zone leaves the entity in that zone only;
\* when it came from another zone, the result carries a warning exactly when
\* the destination is not adjacent to the zone it came from, and the warning
\* gives the number of hops of a shortest path, or says "not connected" when
\* there is no path.
C19_Original ==
    SceneCallIs({"move_entity"}, {"placed", "already", "moved"}) =>
        /\ get_entity_zone(ThisGame, lastCall.args[1]) = <<lastCall.result.to>>
        /\ lastCall.result.kind = "moved" =>
             LET from == lastCall.result.from
                 to == lastCall.result.to
                 warning == lastCall.result.warning
             IN /\ warning # <<>> <=> to \notin Neighbours(from)
                /\ warning # <<>> =>
                     IF ShortestPath(from, to) = <<>>
                     THEN warning = <<"not_connected">>
                     ELSE warning = <<"hops", ShortestPath(from, to)[1]>>

\* an entity was moved between two zones that are not adjacent
C19_Witness ==
    /\ SceneCallIs({"move_entity"}, {"moved"})
    /\ lastCall.result.warning # <<>>

\* C20: place_entity and move_entity with a zone name that matches no zone
\* of the game return the not-found result listing the game's zone names and
\* leave zones, adjacencies and placements as they were.
C20_UnknownZone ==
    [][(/\ lastCall' # lastCall
        /\ lastCall'.op \in {"place_entity", "move_entity"}
        /\ ZoneMatches(ThisGame, lastCall'.args[2]) = {}) =>
            /\ lastCall'.result = [kind |-> "not_found", available |-> get_zones(ThisGame)]
            /\ UNCHANGED zoneVars]_vars

\* an unknown zone was named while the scene has zones and a placed entity
C20_Witness ==
    /\ SceneCallIs({"place_entity", "move_entity"}, {"not_found"})
    /\ lastCall.result.available # <<>>
    /\ RowsOf(zone_entities, ThisGame) # {}

(***************************************************************************)
(* Claims about the sweep of the idle-turn monitor (SpecSweep).            *)
(***************************************************************************)
SweepTakesOver == tpc = "idle" /\ tpc' = "auto" /\ tsent' = "timeout_notice"

\* C21: the monitor sends the timeout notice and starts the auto-played turn
\* only for a game that, at the time of the sweep, is active and was last
\* updated at least TURN_TIMEOUT_SECONDS ago; a recruiting game or one
\* updated more recently is left alone.
C21_OnlyStaleActive ==
    [][SweepTakesOver =>
         status = "active" /\ now - updated_at >= TURN_TIMEOUT_SECONDS]_vars

\* the sweep has taken over a turn right at the timeout
C21_Witness ==
    /\ tpc = "auto" /\ tsent = "timeout_notice"
    /\ status = "active" /\ now - updated_at = TURN_TIMEOUT_SECONDS

(***************************************************************************)
(* Claims about the inventory (SpecInventory).                             *)
(***************************************************************************)
\* C22: after any sequence of add_item, remove_item and
\* update_inventory_item_quantity calls with arbitrary integer quantities no
\* stored inventory row has a negative quantity, and none has quantity zero:
\* such a row is deleted, not stored.
C22_Original == \A r \in inventory_items : r.quantity > 0

\* an item row has been stored with a negative quantity
C22_Witness ==
    /\ lastCall.op = "add_item" /\ lastCall.result.kind = "added"
    /\ \E r \in inventory_items : r.quantity < 0


\* a step in which finalize_action ran: it appended a resolution event
FinalizeStep ==
    /\ Len(events') > Len(events)
    /\ \E i \in (Len(events) + 1)..Len(events') : events'[i].type = "resolution"

\* C23: the turn counter is monotonic: the stored turn number never
\* decreases, and every advance stores a number larger than the stored one,
\* so no two advances store the same turn number - also when finalize_action
\* works on a Game loaded before another finalize advanced the turn.
C23_Original ==
    [][turn' >= turn /\ (FinalizeStep => turn' > turn)]_vars

\* a finalize has stored the turn number that was already stored
C23_Witness ==
    /\ turn = MaxTurn
    /\ Len(events) >= 2
    /\ \E i, j \in 1..Len(events) :
         /\ i < j
         /\ events[i].type = "resolution" /\ events[j].type = "resolution"
         /\ events[i].turn = events[j].turn

(***************************************************************************)
(* Claims about _parse_and_roll (SpecDice).                                *)
(***************************************************************************)
AllDigits(t) == t # <<>> /\ \A i \in 1..Len(t) : t[i] \in Digits

RECURSIVE Pow10(_)
Pow10(n) == IF n = 0 THEN 1 ELSE 10 * Pow10(n - 1)

\* the number a digit text denotes
NumberOf(t) == Sum([i \in 1..Len(t) |-> DigitValue[t[i]] * Pow10(Len(t) - i)])

\* the readings <<N, S, M>> of a text as NdS, NdS+M or NdS-M
Readings(t) ==
    UNION {LET count == SubSeq(t, 1, a - 1)
               rest == SubSeq(t, a + 1, Len(t))
           IN IF ~AllDigits(count) THEN {}
              ELSE IF AllDigits(rest) THEN {<<NumberOf(count), NumberOf(rest), 0>>}
              ELSE {<<NumberOf(count), NumberOf(SubSeq(rest, 1, b - 1)),
                      (IF rest[b] = "-" THEN 0 - 1 ELSE 1)
                          * NumberOf(SubSeq(rest, b + 1, Len(rest)))>> :
                       b \in {j \in 1..Len(rest) :
                                /\ rest[j] \in {"+", "-"}
                                /\ AllDigits(SubSeq(rest, 1, j - 1))
                                /\ AllDigits(SubSeq(rest, j + 1, Len(rest)))}}
           : a \in {i \in 1..Len(t) : t[i] = "d"}}

\* the readings with N in 1..100 and S in 2..100, spaces, surrounding
\* whitespace and case set aside
ValidReadings(notation) ==
    {r \in Readings(LowerNoSpaces(Strip(notation))) :
        r[1] \in 1..DiceLimit /\ r[2] \in MinSides..SidesLimit}

\* C24: for a valid notation NdS, NdS+M or NdS-M with N in 1..100 and S in
\* 2..100 (any case, spaces ignored) _parse_and_roll returns exactly N rolls,
\* each in 1..S, the signed modifier, and total = sum(rolls) + modifier; for
\* every other notation it raises ValueError and returns no rolls.
C24_ParseAndRoll ==
    lastCall.op = "_parse_and_roll" =>
        LET valid == ValidReadings(lastCall.notation)
            result == lastCall.result
        IN IF valid = {}
           THEN result.raised /\ result.rolls = <<>>
           ELSE /\ ~result.raised
                /\ \E r \in valid :
                     /\ Len(result.rolls) = r[1]
                     /\ \A i \in 1..Len(result.rolls) : result.rolls[i] \in 1..r[2]
                     /\ result.modifier = r[3]
                     /\ result.total = Sum(result.rolls) + r[3]

\* a padded upper-case notation with a negative modifier has been rolled
C24_Witness ==
    /\ lastCall.op = "_parse_and_roll"
    /\ lastCall.notation = <<" ", "2", "D", "3", "-", "2", " ">>
    /\ lastCall.result = [raised |-> FALSE, rolls |-> <<3, 1>>, modifier |-> 0 - 2,
                          total |-> 2]

(***************************************************************************)
(* Claims about the lobby commands and the games table (SpecLobby).        *)
(***************************************************************************)
RowsOfChat(chat_id) == {i \in DOMAIN games : games[i].chat_id = chat_id}

DndNewReplies == lastCall' # lastCall /\ lastCall'.op = "dnd_new"

\* C25: after any sequence of /dnd_new, /dnd_join, /dnd_start and /dnd_end
\* the games table holds at most one row for a chat id, and a /dnd_new in a
\* chat that has a game adds no row and leaves the game as it was.
C25_OneGamePerChat ==
    /\ [](\A chat_id \in {ThisChat, OtherChat} : Cardinality(RowsOfChat(chat_id)) <= 1)
    /\ [][DndNewReplies /\ RowsOfChat(ThisChat) # {} =>
            /\ lastCall'.result.kind = "already_exists"
            /\ UNCHANGED <<storeVars, games, other_game>>]_vars

\* /dnd_new has been refused in a chat whose game is running with its party
C25_Witness ==
    /\ lastCall.op = "dnd_new" /\ lastCall.result.kind = "already_exists"
    /\ status = "active" /\ Len(players) >= MinPlayers
    /\ Cardinality(RowsOfChat(ThisChat)) = 1

\* the positions of the system events apply_damage wrote for a participant
DamageEventsOf(name) ==
    {i \in 1..Len(events) : events[i].type = "system" /\ events[i].content[1] = name}

\* the HP the log gives a participant: the "after" value of the last such
\* event, the initial HP when there is none
LoggedHp(p) ==
    IF DamageEventsOf(p.name) = {} THEN p.max_hp
    ELSE events[SetMax(DamageEventsOf(p.name))].content[5]

\* C26: in every state of the store each participant's HP equals the "after"
\* value of the last system event apply_damage wrote for the participant, or
\* the initial HP when there is none.
C26_Original ==
    \A i \in 1..Len(players) : players[i].hp = LoggedHp(players[i])

\* both calls of the message have returned, and a participant's stored HP is
\* not the HP of the last event written for the participant
C26_Witness ==
    /\ Len(workers) = 2 /\ \A w \in 1..2 : workers[w].pc = "returned"
    /\ \E i \in 1..Len(players) :
         /\ DamageEventsOf(players[i].name) # {}
         /\ players[i].hp # LoggedHp(players[i])

(***************************************************************************)
(* Claims about /dnd_end beside a turn in flight (SpecSweep).              *)
(***************************************************************************)
GameIds == {games[i].id : i \in DOMAIN games}

\* C27: in every state each event, zone, zone entity, note, campaign section
\* and inventory row belongs to a game that has a row in the games table,
\* also when /dnd_end runs while an auto-played turn is in flight.
C27_Original ==
    /\ events # <<>> => ThisGame \in GameIds
    /\ \A r \in zones \cup zone_entities \cup dm_notes \cup campaign_sections
                 \cup inventory_items : r.game_id \in GameIds

\* the game was deleted during an auto-played turn, and the turn has since
\* returned leaving an event of the deleted game
C27_Witness ==
    /\ ThisGame \notin GameIds /\ status = "none"
    /\ tpc = "idle" /\ tsent # "none"
    /\ events # <<>>

(***************************************************************************)
(* Claims about the event log (SpecSweep).                                 *)
(***************************************************************************)
IsPrefix(s, t) == Len(s) <= Len(t) /\ SubSeq(t, 1, Len(s)) = s

IsSuffix(s, t) == Len(s) <= Len(t) /\ SubSeq(t, Len(t) - Len(s) + 1, Len(t)) = s

GameDeleted == ThisGame \in GameIds /\ ThisGame \notin GameIds'

\* C28: apart from the deletion of the game no step changes or removes an
\* event: what get_recent_events returns for a limit that covers the log only
\* grows at its end, and for a smaller limit it is an end of the old result
\* followed by the new events.
C28_AppendOnly ==
    [][GameDeleted \/
       /\ IsPrefix(get_recent_events(events, Len(events) + Len(events')),
                   get_recent_events(events', Len(events) + Len(events')))
       /\ \A limit \in 1..MaxEvents :
            IsSuffix(get_recent_events(events', limit),
                     get_recent_events(events, limit)
                         \o SubSeq(events', Len(events) + 1, Len(events')))]_vars

\* the log holds events of three kinds, more than a limit of two returns
C28_Witness ==
    /\ Len(events) = MaxEvents
    /\ Cardinality({events[i].type : i \in 1..Len(events)}) = 3
    /\ get_recent_events(events, 2) = <<events[2], events[3]>>

(***************************************************************************)
(* Claims about unresolved cycles (SpecPlay).                              *)
(***************************************************************************)
ClarificationsAdded ==
    Cardinality({i \in (Len(events) + 1)..Len(events') :
                    events'[i].type = "dm_clarification"})

TurnKept == turn' = turn /\ current' = current

\* the handler learns that its DM call asked for a clarification
HumanUnresolved == hpc \in {"start", "continue"} /\ hout' = "clarify"

\* auto_play_turn goes on from a DM call that asked for a clarification
TakeoverUnresolved == tpc = "loop" /\ tout = "clarify" /\ timerVars' # timerVars

\* C29: when a cycle is not resolved (its accepted trace holds a
\* request_clarification message), exactly one dm_clarification event is
\* appended and the turn counter and the active participant stay as they are.
C29_Original ==
    [][(HumanUnresolved \/ TakeoverUnresolved) =>
          /\ Len(events') >= Len(events) /\ ClarificationsAdded = 1
          /\ TurnKept]_vars

\* auto_play_turn holds a clarification request after its last exchange
C29_Witness ==
    /\ tpc = "loop" /\ tout = "clarify" /\ texch = MaxAiExchanges
    /\ Cardinality({i \in 1..Len(events) : events[i].type = "dm_clarification"})
         = MaxAiExchanges

(***************************************************************************)
(* Claims about finalize_action (SpecFinalize).                            *)
(***************************************************************************)
EventsAdded == SubSeq(events', Len(events) + 1, Len(events'))

FinalizeMoves(pc) == hpc = pc /\ hpc' # pc

\* C30: finalize_action appends one resolution event, then tries the summary
\* refresh, then advances the turn once, then narrates for the new active
\* participant, in that order; a failed refresh goes on to the advance.
C30_FinalizeOrder ==
    [][/\ FinalizeMoves("finalize") =>
            /\ hpc' = "summarize_events"
            /\ Len(EventsAdded) = 1 /\ EventsAdded[1].type = "resolution"
            /\ SubSeq(events', 1, Len(events)) = events
            /\ TurnKept /\ story_summary' = story_summary
       /\ FinalizeMoves("summarize_events") =>
            /\ hpc' = "advance_turn"
            /\ events' = events /\ TurnKept
       /\ FinalizeMoves("advance_turn") =>
            /\ hpc' = "narrate_scene"
            /\ turn' = turn + 1 /\ current' = advance_turn(LoadGame).next_player
            /\ events' = events /\ story_summary' = story_summary
       /\ FinalizeMoves("narrate_scene") =>
            /\ hpc' = "idle"
            /\ TurnKept /\ story_summary' = story_summary
            /\ \/ hout' = "finalize_error" /\ events' = events
               \/ /\ hout' = "finalized" /\ hplayer = current
                  /\ Len(EventsAdded) = 1 /\ EventsAdded[1].type = "narration"
                  /\ EventsAdded[1].turn = turn]_vars

\* a finalize whose summary refresh failed has advanced the turn and narrated
C30_Witness ==
    /\ hpc = "idle" /\ hout = "finalized"
    /\ story_summary = 0 /\ turn = 2 /\ current = 2
    /\ Len(events) >= 2
    /\ events[Len(events) - 1].type = "resolution" /\ events[Len(events) - 1].turn = 1
    /\ events[Len(events)].type = "narration" /\ events[Len(events)].turn = 2

(***************************************************************************)
(* Claims about the bounds of auto_play_turn (SpecPlay).                   *)
(***************************************************************************)
EventsOfType(type) == {i \in 1..Len(events) : events[i].type = type}

\* auto_play_turn leaves a state in which the DM still asks after the
\* third exchange
ForcedResolve ==
    /\ tpc = "loop" /\ tout = "clarify" /\ texch = MaxAiExchanges
    /\ timerVars' # timerVars

AllAutomated == \A i \in 1..Len(players) : players[i].is_ai

\* C32: one call of auto_play_turn stops chaining by a guard of its own: when
\* it has resolved every turn up to MaxTurn it is not entering a further
\* chained call.
C32_Original ==
    ~(tpc = "auto" /\ tdepth > 0 /\ turn = MaxTurn)

\* in a party of automated players only, the call has finalized the turns up
\* to MaxTurn, each from inside the call before, and enters the next call
C32_Witness ==
    /\ AllAutomated
    /\ tpc = "auto" /\ tdepth = MaxTurn - 1 /\ turn = MaxTurn
    /\ tsent = "scene" /\ IsAi(current)

(***************************************************************************)
(* Claims about the party of a session (SpecLobby).                        *)
(***************************************************************************)
Joined == players' # players /\ players' # <<>>

Started == status # "active" /\ status' = "active"

\* C33: an active session has between 2 and 4 participants: a join happens
\* only while recruiting, below 4 participants and for a user not yet in the
\* party, and adds that one participant; a start happens only from recruiting
\* with at least 2 participants.
C33_PartySize ==
    /\ [](status = "active" => Len(players) \in MinPlayers..PartyLimit)
    /\ [][Joined =>
            /\ status = "recruiting" /\ status' = "recruiting"
            /\ Len(players) < PartyLimit
            /\ Len(players') = Len(players) + 1
            /\ SubSeq(players', 1, Len(players)) = players
            /\ \A i \in 1..Len(players) : players[i].user # players'[Len(players')].user]_vars
    /\ [][Started => status = "recruiting" /\ Len(players) >= MinPlayers
                     /\ players' = players]_vars

\* a full party has been started, with a fifth user left outside
C33_Witness ==
    /\ status = "active" /\ Len(players) = PartyLimit
    /\ \E user \in Users : get_player_by_user(user) = 0


\* a step of a /dnd_action handler that works on the participant's text:
\* start_player_action, continue_player_action or finalize_action
ResolvesFor == hpc \in {"start", "continue", "finalize"} /\ hpc' # hpc

\* C34: an action is resolved and finalized on behalf of participant P only
\* while P is the stored active participant: after the turn moved on behind
\* a waiting conversation, P's later text is not resolved and does not
\* advance the turn.
C34_Original ==
    [][ResolvesFor => hplayer = current]_vars

\* no takeover is running and the handler's Game is the stored one, read
\* after the turn moved on; the text of a participant who is not the active
\* one has been resolved and is about to be finalized
C34_Witness ==
    /\ hpc = "finalize" /\ tpc = "idle"
    /\ hgame.current_player_id = current /\ hgame.turn_number = turn
    /\ hplayer # current
    /\ \E i \in EventsOfType("player_action") :
          events[i].turn = turn /\ events[i].actor = hplayer


(***************************************************************************)
(* Claims about apply_damage with an unknown name (SpecTools).             *)
(***************************************************************************)
\* no participant's character name equals the name, letter case aside
NotInSession(name) == \A i \in 1..Len(players) : Lower(players[i].name) # Lower(name)

CharacterNames == [i \in 1..Len(players) |-> players[i].name]

ApplyDamageReturned == calls' = calls + 1 /\ lastCall'.op = "apply_damage"

\* C35: apply_damage naming a participant that is not in the session (letter
\* case aside) returns the error text with the names of the party, changes
\* no participant's hit points and appends no event.
C35_UnknownTarget ==
    [][ApplyDamageReturned /\ NotInSession(lastCall'.name) =>
            /\ lastCall'.result = <<"No player named", lastCall'.name,
                                    "Available players", CharacterNames>>
            /\ players' = players
            /\ events' = events]_vars

\* an unknown name was refused after an earlier call had changed hit points
C35_Witness ==
    /\ lastCall.op = "apply_damage" /\ NotInSession(lastCall.name)
    /\ lastCall.result = <<"No player named", lastCall.name,
                           "Available players", CharacterNames>>
    /\ calls = MaxCalls /\ Len(events) = MaxCalls - 1
    /\ \E i \in 1..Len(players) : players[i].hp < players[i].max_hp


(***************************************************************************)
(* Claims about the store after a retried cycle (SpecCycle).               *)
(***************************************************************************)
DamageCalls(messages) ==
    Cardinality({i \in 1..Len(messages) :
                    messages[i].type = "tool" /\ messages[i].name = "apply_damage"})

\* the party as /dnd_join left it, at the start of the cycle
FreshParty == [i \in 1..Len(players) |-> [players[i] EXCEPT !.hp = players[i].max_hp]]

\* the hit points after the calls ws[i..], each clamped as apply_damage clamps
RECURSIVE Replay(_, _, _)
Replay(ps, ws, i) ==
    IF i > Len(ws) THEN ps
    ELSE LET hit == {k \in 1..Len(ps) : Lower(ps[k].name) = Lower(ws[i].name)}
         IN IF hit = {} THEN Replay(ps, ws, i + 1)
            ELSE LET t == CHOOSE k \in hit : \A j \in hit : k <= j
                     hp == Max(0, Min(ps[t].max_hp, ps[t].hp + ws[i].amount))
                 IN Replay([ps EXCEPT ![t].hp = hp], ws, i + 1)

RetryFired == ipc = "returned" /\ invocations = 2

\* C36: after a cycle in which the dice retry fired, every participant's hit
\* points are those the apply_damage calls of the second invocation alone
\* give, and the response is the one extracted from the second invocation.
C36_Original ==
    RetryFired =>
        /\ players = Replay(FreshParty, workers, DamageCalls(trace1) + 1)
        /\ resp = DMResponse(~_extract_response(trace2).clar, _extract_response(trace2).text)

\* the part on the response alone
C36_ResponseFromSecond ==
    RetryFired =>
        resp = DMResponse(~_extract_response(trace2).clar, _extract_response(trace2).text)

\* the retry fired, the second invocation rolled dice and applied no damage,
\* and a participant is still hurt by the first invocation
C36_Witness ==
    /\ RetryFired
    /\ DamageCalls(trace2) = 0
    /\ \E i \in 1..Len(trace2) : trace2[i] = ToolMsg("roll_dice")
    /\ \E i \in 1..Len(players) : players[i].hp < players[i].max_hp
    /\ players = Replay(FreshParty, workers, 1)


(***************************************************************************)
(* Claims about the sweeps of the idle-turn monitor (SpecPlay).            *)
(***************************************************************************)
\* the staleness query of a sweep would select the game
Selected(stamp, clock) == stamp <= clock - TURN_TIMEOUT_SECONDS

\* a sweep sends the timeout notice and calls auto_play_turn
SweepStarts == tpc = "idle" /\ tpc' = "auto" /\ tsent' = "timeout_notice"

\* auto_play_turn comes back from finalize_action without an exception
TakeoverFinalized == tpc = "loop" /\ tpc' # "loop" /\ tout' = "finalized"

\* C37: a stale turn whose takeover was finalized is not taken over again:
\* the finalize refreshes updated_at, the staleness query does not select the
\* session afterwards, and a sweep sends a notice and starts an auto-play
\* only for a session the query selects.
C37_TakenOverOnce ==
    /\ [][TakeoverFinalized =>
            /\ updated_at' = now
            /\ ~Selected(updated_at', now')]_vars
    /\ [][SweepStarts => status = "active" /\ Selected(updated_at, now)]_vars
    /\ [][~Selected(updated_at, now) /\ Selected(updated_at', now') => now' > now]_vars

\* the takeover of a turn that was stale has finalized, the next participant
\* has been prompted and the query no longer selects the session
C37_Witness ==
    /\ tpc = "idle" /\ tout = "finalized" /\ tsent = "turn_prompt"
    /\ status = "active" /\ now >= TURN_TIMEOUT_SECONDS
    /\ updated_at = now /\ ~Selected(updated_at, now)
    /\ turn = tgame.turn_number + 1


(***************************************************************************)
(* Claims about add_item followed by remove_item (SpecInventory).          *)
(***************************************************************************)
RECURSIVE TotalQuantity(_)
TotalQuantity(rows) ==
    IF rows = {} THEN 0
    ELSE LET r == CHOOSE x \in rows : TRUE
         IN r.quantity + TotalQuantity(rows \ {r})

\* the quantity of the item the player holds, over all rows of that name
Held(table, player_name, item_name) ==
    TotalQuantity({r \in table : r.player_id = FindPlayerId(player_name)
                                 /\ r.item_name = item_name})

\* remove_item is called with the arguments of the add_item just made
RemoveAfterAdd ==
    /\ lastCall.op = "add_item" /\ lastCall.result.kind = "added"
    /\ lastCall.args[3] >= 1
    /\ lastCall'.op = "remove_item" /\ lastCall'.args = lastCall.args

\* C38: add_item(name, q) followed by remove_item(name, q), q >= 1, succeeds
\* and leaves the participant's held quantity of that name as it was before
\* the add, also when the participant already held an item of that name.
C38_Original ==
    [][RemoveAfterAdd =>
          /\ lastCall'.result.kind = "removed"
          /\ Held(inventory_items', lastCall.args[1], lastCall.args[2])
                = Held(inventory_items, lastCall.args[1], lastCall.args[2]) - lastCall.args[3]]_vars

\* the removal that followed the add failed on two rows of one name, and
\* the participant holds more than before the add
C38_Witness ==
    /\ lastCall.op = "remove_item" /\ lastCall.result.kind = "MultipleResultsFound"
    /\ lastCall.args[3] >= 1
    /\ LET rows == ItemRows(FindPlayerId(lastCall.args[1]), lastCall.args[2])
       IN /\ Cardinality(rows) = 2
          /\ \A r \in rows : r.quantity >= 1
          /\ \E r \in rows : r.quantity = lastCall.args[3]


(***************************************************************************)
(* Claims about the rows of another session (SpecFrame).                   *)
(***************************************************************************)
\* the adjacency rows with an end in a zone of the game
AdjacenciesOf(table, game_id) ==
    {a \in table : a.zone_a_id \in ZoneIdsOf(game_id) \/ a.zone_b_id \in ZoneIdsOf(game_id)}

\* a step of clear_zones (clear_scene), setup_scene, add_dm_note or delete_game
FrameStep ==
    \/ lastCall' # lastCall /\ lastCall'.op \in {"clear_scene", "setup_scene", "add_dm_note"}
    \/ workers # <<>> /\ workers' # workers
    \/ status # "none" /\ status' = "none"

\* C39: clear_zones, setup_scene, add_dm_note and delete_game applied to the
\* session of this chat add, change and remove no zone, adjacency, zone
\* entity, note, event, participant or inventory row of the other session.
C39_OtherSessionUnchanged ==
    [][FrameStep =>
          /\ RowsOf(zones', OtherGame) = RowsOf(zones, OtherGame)
          /\ AdjacenciesOf(adjacencies', OtherGame) = AdjacenciesOf(adjacencies, OtherGame)
          /\ RowsOf(zone_entities', OtherGame) = RowsOf(zone_entities, OtherGame)
          /\ RowsOf(dm_notes', OtherGame) = RowsOf(dm_notes, OtherGame)
          /\ RowsOf(inventory_items', OtherGame) = RowsOf(inventory_items, OtherGame)
          /\ other_game'.events = other_game.events
          /\ other_game'.players = other_game.players]_vars

\* a scene was set up, a note added, and the game of this chat deleted; the
\* other session has its two zones, their adjacency, its entity, note, item,
\* participant and event
C39_Witness ==
    /\ status = "none" /\ calls = 1
    /\ lastCall.op = "setup_scene" /\ lastCall.result.kind = "created"
    /\ RowsOf(zones, ThisGame) = {} /\ RowsOf(dm_notes, ThisGame) = {}
    /\ Cardinality(RowsOf(zones, OtherGame)) = 2
    /\ Cardinality(AdjacenciesOf(adjacencies, OtherGame)) = 1
    /\ Cardinality(RowsOf(zone_entities, OtherGame)) = 1
    /\ Cardinality(RowsOf(dm_notes, OtherGame)) = 1
    /\ Cardinality(RowsOf(inventory_items, OtherGame)) = 1
    /\ Len(other_game.players) = 1 /\ Len(other_game.events) = 1

====
